---------------------------- MODULE Spec2Model ----------------------------
(***************************************************************************)
(* Route optimisation and day-route assembly of the travel planner:        *)
(* route_optimizer.py (calculate_distance, nearest_neighbor_route,         *)
(* optimize_route, cluster_by_proximity, calculate_travel_time) and the    *)
(* location extraction / route assembly of app.py.                         *)
(*                                                                         *)
(* Units.  Latitudes and longitudes are whole degrees.  Distances are      *)
(* whole metres (the code's kilometres times 1000), travel times are       *)
(* tenths of a minute (the code's minutes times 10).  Python lists are     *)
(* sequences; list indices stay 0-based as in the source and are turned    *)
(* into positions by At.  A Python dict is a function whose DOMAIN is the  *)
(* set of keys present.                                                    *)
(***************************************************************************)
EXTENDS Integers, Sequences, FiniteSets, TLC

VARIABLES
    pc,             \* position of the running call
    entry,          \* the function called from outside
    runs,           \* completed calls on the same input
    locations,      \* list of venue dicts (optimize_route, cluster_by_proximity)
    coords,         \* nearest_neighbor_route's `locations`: list of (lat, lon)
    start,          \* nearest_neighbor_route's `start` / optimize_route's `start_location`
    unvisited,      \* route_optimizer.py:34
    route,          \* route_optimizer.py:35
    current,        \* route_optimizer.py:40-43, 56
    nn_result,      \* value returned by nearest_neighbor_route
    optimized,      \* route_optimizer.py:81, as indices into `locations` (same dict objects)
    total_distance, \* route_optimizer.py:84
    opt_result,     \* value returned by optimize_route
    prev_result,    \* value returned by the previous call on the same input
    max_distance_km,\* cluster_by_proximity's threshold, in metres
    clusters,       \* route_optimizer.py:114, clusters of indices into `locations`
    unassigned,     \* route_optimizer.py:115, indices into `locations`
    cluster,        \* route_optimizer.py:119
    cluster_center, \* route_optimizer.py:120
    cl_i,           \* route_optimizer.py:123, `i`
    cl_result,      \* value returned by cluster_by_proximity
    distance_km,    \* calculate_travel_time's distance, in metres
    mode_arg,       \* the `mode` argument as passed: None when it is left out
    mode,           \* calculate_travel_time's `mode` after the default applies
    tt_result,      \* value returned by calculate_travel_time, in tenths of a minute
    plan,           \* app.py:65, the plan create_travel_plan returns
    last_slot,      \* the last part of the plan a recommender filled
    dataset,        \* the files glob('etl/del_dup/*.json') lists, in its order
    response,       \* app.py:75-91, what get_recommendations returns
    lookup_name,    \* get_hotel_coordinates' `hotel_name`
    coords_result,  \* how get_hotel_coordinates ended: a return or a raise
    origin,         \* first point of calculate_distance, `origin` of get_route
    destination,    \* second point of calculate_distance, `destination` of get_route
    library,        \* the geopy installed: "geopy1" or "geopy2"
    dist_result,    \* how calculate_distance ended
    google_api_key, \* traffic_api.py:25
    use_osrm,       \* traffic_api.py:26
    service,        \* what the live routing service does with the request
    travel_mode,    \* get_route's `mode`
    route_result,   \* how get_route ended
    yelp,           \* restaurant_recommender.py:38, whether the Yelp file is there
    restaurants_df, \* planner.restaurant_recommender.restaurants_df, one for all requests
    kmeans_model,   \* planner.restaurant_recommender.kmeans_model: the request that fitted it
    req_city,       \* app.py:30, each request's `destination`
    req_pc,         \* position of each request's thread
    req_X,          \* restaurant_recommender.py:113, each thread's `X`: its number of rows
    req_meals,      \* what recommend_by_meal has returned to each thread so far
    req_response    \* app.py:75-91, each request's response

routeVars == <<pc, entry, runs, locations, coords, start, unvisited, route,
               current, nn_result, optimized, total_distance, opt_result,
               prev_result>>

clusterVars == <<max_distance_km, clusters, unassigned, cluster, cluster_center,
                 cl_i, cl_result>>

timeVars == <<distance_km, mode_arg, mode, tt_result>>

appVars == <<plan, last_slot, dataset, response>>

resolverVars == <<lookup_name, coords_result>>

distanceVars == <<origin, destination, library, dist_result>>

trafficVars == <<google_api_key, use_osrm, service, travel_mode, route_result>>

requestVars == <<yelp, restaurants_df, kmeans_model, req_city, req_pc, req_X,
                 req_meals, req_response>>

extraVars == <<resolverVars, distanceVars, trafficVars, requestVars>>

vars == <<routeVars, clusterVars, timeVars, appVars, extraVars>>

-----------------------------------------------------------------------------
(* Bounds of the model *)

MaxLocs == 3
MaxRuns == 2
MaxDistTenths == 1000   \* distances up to 100 km in steps of 0.1 km
MaxVenues == 2          \* venues in a plan

-----------------------------------------------------------------------------
(* Python values *)

None == [isNone |-> TRUE]
Some(v) == [isNone |-> FALSE, value |-> v]

\* Python's None where a number is expected (a null cell of a recommender's
\* table, row.get('latitude', 0) at travel_planner.py:330 and
\* restaurant_recommender.py:180): a value that equals no number
Null == 999999

\* float(x): TypeError on None
FloatRaises(x) == x = Null

\* truth value of `start` in `if start:`: None is false, a non-empty tuple is true
Truthy(x) == ~x.isNone /\ Len(x.value) > 0

\* dict.get(key, default)
Get(d, key, default) == IF key \in DOMAIN d THEN d[key] ELSE default

\* d[key] = value on a dict
SetItem(d, key, value) == [k \in DOMAIN d \cup {key} |-> IF k = key THEN value ELSE d[k]]

\* seq[i] with a 0-based index
At(seq, i) == seq[i + 1]

\* range(n) as a list
RECURSIVE Range(_)
Range(n) == IF n = 0 THEN <<>> ELSE Append(Range(n - 1), n - 1)

Abs(x) == IF x < 0 THEN -x ELSE x

Elems(seq) == {seq[k] : k \in DOMAIN seq}

-----------------------------------------------------------------------------
(* calculate_distance: geodesic((lat1, lon1), (lat2, lon2)).kilometers        *)
(* WGS-84 geodesic lengths in metres between whole-degree points, indexed by  *)
(* <<lat1, lat2, difference of the longitudes>>.                              *)

GeodesicMetres ==
    ( <<0, 0, 0>> :> 0      @@ <<0, 0, 1>> :> 111319 @@ <<0, 0, 2>> :> 222639 @@
      <<0, 1, 0>> :> 110574 @@ <<0, 1, 1>> :> 156900 @@ <<0, 1, 2>> :> 248576 @@
      <<0, 2, 0>> :> 221149 @@ <<0, 2, 1>> :> 247576 @@ <<0, 2, 2>> :> 313776 @@
      <<1, 0, 0>> :> 110574 @@ <<1, 0, 1>> :> 156900 @@ <<1, 0, 2>> :> 248576 @@
      <<1, 1, 0>> :> 0      @@ <<1, 1, 1>> :> 111303 @@ <<1, 1, 2>> :> 222605 @@
      <<1, 2, 0>> :> 110575 @@ <<1, 2, 1>> :> 156876 @@ <<1, 2, 2>> :> 248516 @@
      <<2, 0, 0>> :> 221149 @@ <<2, 0, 1>> :> 247576 @@ <<2, 0, 2>> :> 313776 @@
      <<2, 1, 0>> :> 110575 @@ <<2, 1, 1>> :> 156876 @@ <<2, 1, 2>> :> 248516 @@
      <<2, 2, 0>> :> 0      @@ <<2, 2, 1>> :> 111252 @@ <<2, 2, 2>> :> 222504 @@
      <<90, 0, 0>> :> 10001966 @@ <<90, 0, 1>> :> 10001966 @@ <<90, 0, 2>> :> 10001966 @@
      <<0, 90, 0>> :> 10001966 @@ <<0, 90, 1>> :> 10001966 @@ <<0, 90, 2>> :> 10001966 @@
      <<90, 1, 0>> :> 9891391  @@ <<90, 1, 1>> :> 9891391  @@ <<90, 1, 2>> :> 9891391 @@
      <<1, 90, 0>> :> 9891391  @@ <<1, 90, 1>> :> 9891391  @@ <<1, 90, 2>> :> 9891391 @@
      <<90, 2, 0>> :> 9780816  @@ <<90, 2, 1>> :> 9780816  @@ <<90, 2, 2>> :> 9780816 @@
      <<2, 90, 0>> :> 9780816  @@ <<2, 90, 1>> :> 9780816  @@ <<2, 90, 2>> :> 9780816 @@
      <<90, 90, 0>> :> 0       @@ <<90, 90, 1>> :> 0       @@ <<90, 90, 2>> :> 0 )

\* float('nan') as a coordinate or a distance
NaN == 999998

\* the library's Point(latitude, longitude) takes None for 0.0
\* (float(x or 0.0))
Float0(x) == IF x = Null THEN 0 ELSE x

\* a latitude beyond a pole, where the library does not refuse it, is folded
\* into [-90, 90): ((lat + 90) % 180) - 90
PointLat(lat) ==
    LET v == Float0(lat)
    IN  IF Abs(v) > 90 THEN ((v + 90) % 180) - 90 ELSE v

\* longitudes are taken modulo 360 ((lon + 180) % 360 - 180), so two of them
\* are apart by at most 180 degrees
LonDiff(lon1, lon2) ==
    LET d == Abs(Float0(lon1) - Float0(lon2)) % 360
    IN  IF d > 180 THEN 360 - d ELSE d

\* degrees on a flat plane, about 111 km each
FlatDistance(lat1, lon1, lat2, lon2) ==
    111319 * (Abs(Float0(lat1) - Float0(lat2)) + Abs(Float0(lon1) - Float0(lon2)))

\* the value calculate_distance returns when it returns one
calculate_distance(lat1, lon1, lat2, lon2) ==
    IF NaN \in {lat1, lon1, lat2, lon2} THEN NaN
    ELSE GeodesicMetres[<<PointLat(lat1), PointLat(lat2), LonDiff(lon1, lon2)>>]

\* Point(latitude, None): a latitude alone
LoneLatitude(lat, lon) == lat # Null /\ lon = Null

\* whether geodesic() refuses a point.  route_optimizer.py:10-14 checks
\* nothing itself; what the library in use (geopy2: version 2, otherwise
\* version 1) does with a point decides: version 2 raises ValueError on a lone
\* latitude, on a coordinate that is not finite and on a latitude outside
\* [-90, 90]; version 1 warns.  Neither refuses a longitude outside
\* [-180, 180].
PointRaises(lat, lon, geopy2) ==
    /\ geopy2
    /\ \/ LoneLatitude(lat, lon)
       \/ NaN \in {lat, lon}
       \/ Abs(Float0(lat)) > 90

\* whether calculate_distance raises instead of returning
DistanceRaises(lat1, lon1, lat2, lon2, geopy2) ==
    PointRaises(lat1, lon1, geopy2) \/ PointRaises(lat2, lon2, geopy2)

-----------------------------------------------------------------------------
(* min(iterable, key=...): the first element, in iteration order, whose key   *)
(* is smallest.  `cands` is the iteration order, keys[k] the key of cands[k]. *)

RECURSIVE PyMinFrom(_, _, _, _)
PyMinFrom(cands, keys, k, best) ==
    IF k > Len(cands) THEN cands[best]
    ELSE PyMinFrom(cands, keys, k + 1, IF keys[k] < keys[best] THEN k ELSE best)

\* the last smallest element instead of the first
PyMinLast(cands, keys) ==
    LET m == CHOOSE p \in DOMAIN keys :
                 /\ \A q \in DOMAIN keys : keys[p] <= keys[q]
                 /\ \A q \in DOMAIN keys : q > p => keys[q] > keys[p]
    IN  cands[m]

PyMin(cands, keys) == PyMinFrom(cands, keys, 2, 1)

RECURSIVE SetIterDescending(_)
SetIterDescending(S) ==
    IF S = {} THEN <<>>
    ELSE LET m == CHOOSE x \in S : \A y \in S : x >= y
         IN  <<m>> \o SetIterDescending(S \ {m})

RECURSIVE SetIterAscending(_)
SetIterAscending(S) ==
    IF S = {} THEN <<>>
    ELSE LET m == CHOOSE x \in S : \A y \in S : x <= y
         IN  <<m>> \o SetIterAscending(S \ {m})

\* an order that differs from one call to the next
SetIterUnstable(S) == IF runs = 0 THEN SetIterAscending(S) ELSE SetIterDescending(S)

\* iteration order of a set of small non-negative ints (hash(i) = i, the table
\* of set(range(n)) is never smaller than n): ascending
SetIterOrder(S) == SetIterAscending(S)

-----------------------------------------------------------------------------
(* nearest_neighbor_route *)

\* returns the empty route for a single location too
TrivialRouteEmpty(n) == <<>>

\* route_optimizer.py:27-31
TrivialRoute(n) == IF n = 0 THEN <<>> ELSE <<0>>

\* takes a start of (0, 0) for no start
StartGivenNonZero(st) == ~st.isNone /\ st.value # <<0, 0>>

\* route_optimizer.py:38, `if start:`
StartGiven(st) == Truthy(st)

\* route_optimizer.py:38-43
StartIndex(locs, st) ==
    IF StartGiven(st)
    THEN LET cands == Range(Len(locs))
             keys  == [k \in DOMAIN cands |->
                          calculate_distance(st.value[1], st.value[2],
                                             At(locs, cands[k])[1], At(locs, cands[k])[2])]
         IN  PyMin(cands, keys)
    ELSE 0

\* leaves the set as it is
RemoveNothing(S, x) == S

\* set.remove(x)
Remove(S, x) == S \ {x}

\* stays at the current location
NearestIsCurrent(locs, unv, cur) == cur

\* route_optimizer.py:50-53
Nearest(locs, unv, cur) ==
    LET cands == SetIterOrder(unv)
        keys  == [k \in DOMAIN cands |->
                     calculate_distance(At(locs, cur)[1], At(locs, cur)[2],
                                        At(locs, cands[k])[1], At(locs, cands[k])[2])]
    IN  PyMin(cands, keys)

\* route_optimizer.py:49-58, the loop run to its end
RECURSIVE Walk(_, _, _, _)
Walk(locs, unv, rt, cur) ==
    IF unv = {} THEN rt
    ELSE LET nearest == Nearest(locs, unv, cur)
         IN  Walk(locs, Remove(unv, nearest), Append(rt, nearest), nearest)

\* route_optimizer.py:16-58, the whole function
nearest_neighbor_route(locs, st) ==
    IF Len(locs) <= 1 THEN TrivialRoute(Len(locs))
    ELSE LET first == StartIndex(locs, st)
         IN  Walk(locs, Remove(0 .. Len(locs) - 1, first), <<first>>, first)

-----------------------------------------------------------------------------
(* optimize_route *)

\* route_optimizer.py:75
CoordsOf(locs) ==
    [k \in DOMAIN locs |-> <<Get(locs[k], "latitude", 0), Get(locs[k], "longitude", 0)>>]

\* round(dist, 2) on kilometres: to the nearest 10 metres, halves to even
Round2(d) ==
    LET q == d \div 10
        r == d % 10
    IN  10 * (IF r > 5 \/ (r = 5 /\ q % 2 = 1) THEN q + 1 ELSE q)

\* route_optimizer.py:88-91 for optimized[i], optimized[i + 1]
SegmentDistance(heap, opt, i) ==
    LET loc1 == At(heap, At(opt, i))
        loc2 == At(heap, At(opt, i + 1))
    IN  calculate_distance(Get(loc1, "latitude", 0), Get(loc1, "longitude", 0),
                           Get(loc2, "latitude", 0), Get(loc2, "longitude", 0))

\* heap with heap[ref][key] = value
Store(heap, ref, key, value) ==
    [heap EXCEPT ![ref + 1] = SetItem(heap[ref + 1], key, value)]

\* adds up the rounded distances
RECURSIVE AnnotateFromRounded(_, _, _, _)
AnnotateFromRounded(heap, opt, i, total) ==
    IF i >= Len(opt) - 1 THEN [heap |-> heap, total |-> total]
    ELSE LET dist == Round2(SegmentDistance(heap, opt, i))
         IN  AnnotateFromRounded(Store(heap, At(opt, i), "distance_to_next", dist),
                                 opt, i + 1, total + dist)

\* route_optimizer.py:84-93, iterations i .. len(optimized) - 2 of the loop
RECURSIVE AnnotateFrom(_, _, _, _)
AnnotateFrom(heap, opt, i, total) ==
    IF i >= Len(opt) - 1 THEN [heap |-> heap, total |-> total]
    ELSE LET dist == SegmentDistance(heap, opt, i)
         IN  AnnotateFrom(Store(heap, At(opt, i), "distance_to_next", Round2(dist)),
                          opt, i + 1, total + dist)

\* route_optimizer.py:81-98
Annotate(heap, opt) ==
    LET looped == AnnotateFrom(heap, opt, 0, 0)
    IN  IF Len(opt) > 0
        THEN [heap  |-> Store(looped.heap, At(opt, Len(opt) - 1), "distance_to_next", 0),
              total |-> looped.total]
        ELSE looped

-----------------------------------------------------------------------------
(* Inputs of the routing calls *)

RouteCoords == {<<0, 0>>, <<0, 1>>, <<1, 0>>, <<0, 2>>}

Starts == {None} \cup {Some(c) : c \in RouteCoords}

SeqsUpTo(S, n) == UNION {[1 .. k -> S] : k \in 0 .. n}

\* a venue dict: its name is its input position; a shape of None has no
\* coordinate keys
VenueOf(k, shape) ==
    IF shape.isNone THEN [name |-> k - 1]
    ELSE [name |-> k - 1, latitude |-> shape.value[1], longitude |-> shape.value[2]]

VenueLists(n) ==
    {[k \in DOMAIN shapes |-> VenueOf(k, shapes[k])] : shapes \in SeqsUpTo(Starts, n)}

-----------------------------------------------------------------------------
(* The routing calls, step by step *)

\* optimize_route_with_traffic (traffic_api.py:169-170) passes its arguments to
\* nearest_neighbor_route and returns what it returns
EntryPc(e) == IF e = "optimize_route" THEN "opt_call" ELSE "nn_call"

\* where nearest_neighbor_route returns to
NNReturnPc == IF entry = "optimize_route" THEN "opt_rest" ELSE "done"

RouteInit ==
    /\ entry \in {"nearest_neighbor_route", "optimize_route",
                  "optimize_route_with_traffic"}
    /\ pc = EntryPc(entry)
    /\ runs = 0
    /\ IF entry # "optimize_route"
       THEN coords \in SeqsUpTo(RouteCoords, MaxLocs) /\ locations = <<>>
       ELSE locations \in VenueLists(MaxLocs) /\ coords = <<>>
    /\ start \in Starts
    /\ unvisited = {}
    /\ route = <<>>
    /\ current = 0
    /\ nn_result = <<>>
    /\ optimized = <<>>
    /\ total_distance = 0
    /\ opt_result = None
    /\ prev_result = None

\* route_optimizer.py:27-46
NNCall ==
    /\ pc = "nn_call"
    /\ IF Len(coords) <= 1
       THEN /\ nn_result' = TrivialRoute(Len(coords))
            /\ pc' = NNReturnPc
            /\ UNCHANGED <<unvisited, route, current>>
       ELSE /\ current' = StartIndex(coords, start)
            /\ route' = <<current'>>
            /\ unvisited' = Remove(0 .. Len(coords) - 1, current')
            /\ pc' = "nn_loop"
            /\ UNCHANGED nn_result
    /\ UNCHANGED <<entry, runs, locations, coords, start, optimized,
                   total_distance, opt_result, prev_result>>

\* route_optimizer.py:49-56, one iteration
NNStep ==
    /\ pc = "nn_loop"
    /\ unvisited # {}
    /\ LET nearest == Nearest(coords, unvisited, current)
       IN  /\ route' = Append(route, nearest)
           /\ unvisited' = Remove(unvisited, nearest)
           /\ current' = nearest
    /\ UNCHANGED <<pc, entry, runs, locations, coords, start, nn_result,
                   optimized, total_distance, opt_result, prev_result>>

\* route_optimizer.py:49, 58
NNReturn ==
    /\ pc = "nn_loop"
    /\ unvisited = {}
    /\ nn_result' = route
    /\ pc' = NNReturnPc
    /\ UNCHANGED <<entry, runs, locations, coords, start, unvisited, route,
                   current, optimized, total_distance, opt_result, prev_result>>

\* route_optimizer.py:71-78, up to the call of nearest_neighbor_route
OptCall ==
    /\ pc = "opt_call"
    /\ IF Len(locations) = 0
       THEN /\ opt_result' = [kind |-> "list", items |-> <<>>]
            /\ pc' = "done"
            /\ UNCHANGED coords
       ELSE /\ coords' = CoordsOf(locations)
            /\ pc' = "nn_call"
            /\ UNCHANGED opt_result
    /\ UNCHANGED <<entry, runs, locations, start, unvisited, route, current,
                   nn_result, optimized, total_distance, prev_result>>

\* route_optimizer.py:78-98, from the return of nearest_neighbor_route
OptRest ==
    /\ pc = "opt_rest"
    /\ LET done == Annotate(locations, nn_result)
       IN  /\ optimized' = nn_result
           /\ locations' = done.heap
           /\ total_distance' = done.total
           /\ opt_result' = [kind |-> "pair", optimized |-> nn_result,
                                total_distance |-> done.total]
    /\ pc' = "done"
    /\ UNCHANGED <<entry, runs, coords, start, unvisited, route, current,
                   nn_result, prev_result>>

\* the value the finished call returned
Returned ==
    IF entry = "optimize_route" THEN opt_result
    ELSE [kind |-> "list", items |-> nn_result]

\* the caller calls again with the same arguments
Rerun ==
    /\ pc = "done"
    /\ runs + 1 < MaxRuns
    /\ runs' = runs + 1
    /\ prev_result' = Returned
    /\ pc' = EntryPc(entry)
    /\ coords' = IF entry = "optimize_route" THEN <<>> ELSE coords
    /\ unvisited' = {}
    /\ route' = <<>>
    /\ current' = 0
    /\ nn_result' = <<>>
    /\ optimized' = <<>>
    /\ total_distance' = 0
    /\ opt_result' = None
    /\ UNCHANGED <<entry, locations, start>>

\* no cluster_by_proximity call is in progress
ClusterIdle ==
    /\ max_distance_km = 0
    /\ clusters = <<>>
    /\ unassigned = <<>>
    /\ cluster = <<>>
    /\ cluster_center = <<0, 0>>
    /\ cl_i = 0
    /\ cl_result = <<>>

\* no request is in progress
AppIdle ==
    /\ plan = None
    /\ last_slot = 0
    /\ dataset = <<>>
    /\ response = None

\* no get_hotel_coordinates call is in progress
ResolverIdle ==
    /\ lookup_name = 0
    /\ coords_result = None

\* no calculate_distance call is in progress
DistanceIdle ==
    /\ origin = <<0, 0>>
    /\ destination = <<0, 0>>
    /\ library = "geopy2"
    /\ dist_result = None

\* no get_route call is in progress
TrafficIdle ==
    /\ google_api_key = None
    /\ use_osrm = TRUE
    /\ service = ""
    /\ travel_mode = ""
    /\ route_result = None

\* no request thread is running
RequestsIdle ==
    /\ yelp = FALSE
    /\ restaurants_df = None
    /\ kmeans_model = 0
    /\ req_city = <<>>
    /\ req_pc = <<>>
    /\ req_X = <<>>
    /\ req_meals = <<>>
    /\ req_response = <<>>

ExtraIdle == ResolverIdle /\ DistanceIdle /\ TrafficIdle /\ RequestsIdle

\* no calculate_travel_time call is in progress
TimeIdle ==
    /\ distance_km = 0
    /\ mode_arg = None
    /\ mode = ""
    /\ tt_result = 0

RouteNext ==
    \/ NNCall /\ UNCHANGED <<clusterVars, timeVars, appVars, extraVars>>
    \/ NNStep /\ UNCHANGED <<clusterVars, timeVars, appVars, extraVars>>
    \/ NNReturn /\ UNCHANGED <<clusterVars, timeVars, appVars, extraVars>>
    \/ OptCall /\ UNCHANGED <<clusterVars, timeVars, appVars, extraVars>>
    \/ OptRest /\ UNCHANGED <<clusterVars, timeVars, appVars, extraVars>>
    \/ Rerun /\ UNCHANGED <<clusterVars, timeVars, appVars, extraVars>>

InitRoute == RouteInit /\ ClusterIdle /\ TimeIdle /\ AppIdle /\ ExtraIdle

SpecRoute == InitRoute /\ [][RouteNext]_vars

-----------------------------------------------------------------------------
(* cluster_by_proximity, step by step *)

\* thresholds tried: negative, zero, the default 5 km, exactly one degree of
\* longitude on the equator, and one that holds every pair of RouteCoords
Thresholds == {-1, 0, 5000, 111319, 250000}

\* joins whatever the distance
WithinAlways(dist, max) == TRUE

\* route_optimizer.py:131
Within(dist, max) == dist <= max

\* returns the element and leaves it in the list
PopKeeps(seq, k) == seq

\* the list without its element of 0-based index k (list.pop(k) removes it)
PopAt(seq, k) == SubSeq(seq, 1, k) \o SubSeq(seq, k + 2, Len(seq))

\* route_optimizer.py:120
CenterOf(heap, cl) ==
    <<Get(At(heap, At(cl, 0)), "latitude", 0), Get(At(heap, At(cl, 0)), "longitude", 0)>>

ClusterInit ==
    /\ entry = "cluster_by_proximity"
    /\ pc = "cl_call"
    /\ runs = 0
    /\ locations \in VenueLists(MaxLocs)
    /\ max_distance_km \in Thresholds
    /\ clusters = <<>>
    /\ unassigned = <<>>
    /\ cluster = <<>>
    /\ cluster_center = <<0, 0>>
    /\ cl_i = 0
    /\ cl_result = <<>>
    /\ prev_result = None

\* no routing call is in progress
RouteIdle ==
    /\ coords = <<>>
    /\ start = None
    /\ unvisited = {}
    /\ route = <<>>
    /\ current = 0
    /\ nn_result = <<>>
    /\ optimized = <<>>
    /\ total_distance = 0
    /\ opt_result = None

nnVars == <<coords, start, unvisited, route, current, nn_result, optimized,
            total_distance, opt_result>>

\* route_optimizer.py:111-115
ClCall ==
    /\ pc = "cl_call"
    /\ IF Len(locations) = 0
       THEN /\ cl_result' = <<>>
            /\ pc' = "done"
            /\ UNCHANGED <<clusters, unassigned>>
       ELSE /\ clusters' = <<>>
            /\ unassigned' = Range(Len(locations))
            /\ pc' = "cl_outer"
            /\ UNCHANGED cl_result
    /\ UNCHANGED <<entry, runs, locations, prev_result, max_distance_km, cluster,
                   cluster_center, cl_i>>

\* route_optimizer.py:117-123
ClSeed ==
    /\ pc = "cl_outer"
    /\ Len(unassigned) > 0
    /\ cluster' = <<At(unassigned, 0)>>
    /\ unassigned' = PopAt(unassigned, 0)
    /\ cluster_center' = CenterOf(locations, cluster')
    /\ cl_i' = 0
    /\ pc' = "cl_inner"
    /\ UNCHANGED <<entry, runs, locations, prev_result, max_distance_km, clusters,
                   cl_result>>

\* puts the venue in front of the cluster's members
JoinAtFront(cl, x) == <<x>> \o cl

\* route_optimizer.py:132, cluster.append(...)
JoinCluster(cl, x) == Append(cl, x)

\* route_optimizer.py:124-134, one iteration
ClScan ==
    /\ pc = "cl_inner"
    /\ cl_i < Len(unassigned)
    /\ LET loc  == At(locations, At(unassigned, cl_i))
           dist == calculate_distance(cluster_center[1], cluster_center[2],
                                      Get(loc, "latitude", 0), Get(loc, "longitude", 0))
       IN  IF Within(dist, max_distance_km)
           THEN /\ cluster' = JoinCluster(cluster, At(unassigned, cl_i))
                /\ unassigned' = PopAt(unassigned, cl_i)
                /\ UNCHANGED cl_i
           ELSE /\ cl_i' = cl_i + 1
                /\ UNCHANGED <<cluster, unassigned>>
    /\ UNCHANGED <<pc, entry, runs, locations, prev_result, max_distance_km,
                   clusters, cluster_center, cl_result>>

\* joins the cluster to the one closed before it
CloseMerging(cls, cl) ==
    IF cls = <<>> THEN <<cl>> ELSE [cls EXCEPT ![Len(cls)] = @ \o cl]

\* route_optimizer.py:136, clusters.append(cluster)
CloseCluster(cls, cl) == Append(cls, cl)

\* route_optimizer.py:124, 136
ClClose ==
    /\ pc = "cl_inner"
    /\ cl_i >= Len(unassigned)
    /\ clusters' = CloseCluster(clusters, cluster)
    /\ pc' = "cl_outer"
    /\ UNCHANGED <<entry, runs, locations, prev_result, max_distance_km,
                   unassigned, cluster, cluster_center, cl_i, cl_result>>

\* route_optimizer.py:117, 138
ClReturn ==
    /\ pc = "cl_outer"
    /\ Len(unassigned) = 0
    /\ cl_result' = clusters
    /\ pc' = "done"
    /\ UNCHANGED <<entry, runs, locations, prev_result, max_distance_km, clusters,
                   unassigned, cluster, cluster_center, cl_i>>

\* the caller clusters the same list again with the same threshold
ClRerun ==
    /\ pc = "done"
    /\ runs + 1 < MaxRuns
    /\ runs' = runs + 1
    /\ prev_result' = [kind |-> "list", items |-> cl_result]
    /\ pc' = "cl_call"
    /\ clusters' = <<>>
    /\ unassigned' = <<>>
    /\ cluster' = <<>>
    /\ cluster_center' = <<0, 0>>
    /\ cl_i' = 0
    /\ cl_result' = <<>>
    /\ UNCHANGED <<entry, locations, max_distance_km>>

ClusterNext ==
    \/ ClCall /\ UNCHANGED <<nnVars, timeVars, appVars, extraVars>>
    \/ ClSeed /\ UNCHANGED <<nnVars, timeVars, appVars, extraVars>>
    \/ ClScan /\ UNCHANGED <<nnVars, timeVars, appVars, extraVars>>
    \/ ClClose /\ UNCHANGED <<nnVars, timeVars, appVars, extraVars>>
    \/ ClReturn /\ UNCHANGED <<nnVars, timeVars, appVars, extraVars>>
    \/ ClRerun /\ UNCHANGED <<nnVars, timeVars, appVars, extraVars>>

InitCluster == ClusterInit /\ RouteIdle /\ TimeIdle /\ AppIdle /\ ExtraIdle

SpecCluster == InitCluster /\ [][ClusterNext]_vars

-----------------------------------------------------------------------------
(* calculate_travel_time *)

\* route_optimizer.py:152-157, km/h
speeds == [driving |-> 50, walking |-> 5, transit |-> 30, cycling |-> 15]

\* falls back to the walking speed
SpeedOfDefaultWalking(m) == Get(speeds, m, 5)

\* route_optimizer.py:159
SpeedOf(m) == Get(speeds, m, 50)

\* num / den cut off after the last kept digit
RoundDown(num, den) == num \div den

\* round(): num / den (den > 0, num >= 0) to the nearest integer, halves to even
RoundHalfEven(num, den) ==
    LET q == num \div den
        r == num % den
    IN  IF 2 * r > den \/ (2 * r = den /\ q % 2 = 1) THEN q + 1 ELSE q

\* route_optimizer.py:159-161; metres in, tenths of a minute out:
\* 10 * ((d / 1000) / speed * 60) = 600 * d / (1000 * speed)
calculate_travel_time(d, m) ==
    LET speed == SpeedOf(m)
    IN  RoundHalfEven(600 * d, 1000 * speed)

\* mode strings passed by callers: the four of the table and two others
ModeStrings == {"driving", "walking", "transit", "cycling", "flying", ""}

TimeInit ==
    /\ entry = "calculate_travel_time"
    /\ pc = "tt_call"
    /\ runs = 0
    /\ locations = <<>>
    /\ prev_result = None
    /\ \E k \in 0 .. MaxDistTenths : distance_km = 100 * k
    /\ mode_arg \in {None} \cup {Some(m) : m \in ModeStrings}
    /\ mode = ""
    /\ tt_result = 0

\* route_optimizer.py:140-161
TravelTime ==
    /\ pc = "tt_call"
    /\ mode' = IF mode_arg.isNone THEN "driving" ELSE mode_arg.value
    /\ tt_result' = calculate_travel_time(distance_km, mode')
    /\ pc' = "done"
    /\ UNCHANGED <<entry, runs, locations, prev_result, distance_km, mode_arg>>

TimeNext == TravelTime /\ UNCHANGED <<nnVars, clusterVars, appVars, extraVars>>

InitTravelTime == TimeInit /\ RouteIdle /\ ClusterIdle /\ AppIdle /\ ExtraIdle

SpecTravelTime == InitTravelTime /\ [][TimeNext]_vars

-----------------------------------------------------------------------------
(* Properties of nearest_neighbor_route and optimize_route *)

NoDuplicates(seq) == \A j, k \in DOMAIN seq : j # k => seq[j] # seq[k]

Indices == 0 .. Len(coords) - 1

\* distance between the locations of indices a and j
D(a, j) == calculate_distance(At(coords, a)[1], At(coords, a)[2],
                              At(coords, j)[1], At(coords, j)[2])

\* nearest_neighbor_route has returned
NNReturned == pc \in {"opt_rest", "done"} /\ ~(entry = "optimize_route" /\ Len(locations) = 0)

\* the walk has begun (and maybe ended)
Walking == Len(coords) >= 2 /\ (pc = "nn_loop" \/ NNReturned)

\* indices not among the first k - 1 of the route
NotBefore(k) == Indices \ {route[j] : j \in 1 .. k - 1}

\* C1: the route of n >= 1 coordinates is a permutation of 0..n-1 of length n
\* (an open path), and during the walk the route and the unvisited set are
\* disjoint and together are 0..n-1.
C1_RouteIsPermutation ==
    /\ pc = "nn_loop" =>
          /\ Elems(route) \cap unvisited = {}
          /\ Elems(route) \cup unvisited = Indices
          /\ NoDuplicates(route)
    /\ (NNReturned /\ Len(coords) >= 1) =>
          /\ Len(nn_result) = Len(coords)
          /\ Elems(nn_result) = Indices
          /\ NoDuplicates(nn_result)

C1_Witness ==
    /\ pc = "done"
    /\ entry = "nearest_neighbor_route"
    /\ Len(coords) >= 3
    /\ ~start.isNone
    /\ nn_result[1] # 0

\* C2: every step goes to an unvisited index at minimal distance from the
\* previous one, the lowest such index on a tie; with no start and three
\* locations of which 1 is closer to 0 than 2 is, the route is [0, 1, 2].
C2_GreedyNearestLowestIndex ==
    /\ Walking =>
          \A k \in 2 .. Len(route) :
              /\ route[k] \in NotBefore(k)
              /\ \A j \in NotBefore(k) :
                    /\ D(route[k - 1], route[k]) <= D(route[k - 1], j)
                    /\ D(route[k - 1], route[k]) = D(route[k - 1], j) => route[k] <= j
    /\ ( /\ NNReturned
         /\ start.isNone
         /\ Len(coords) = 3
         /\ D(0, 1) < D(0, 2) ) => nn_result = <<0, 1, 2>>

\* a finished walk in which some step had to break a tie
C2_Witness ==
    /\ pc = "done"
    /\ Len(coords) >= 3
    /\ \E k \in 2 .. Len(route) : \E j \in NotBefore(k) :
          /\ j # route[k]
          /\ D(route[k - 1], j) = D(route[k - 1], route[k])

\* distance from the start coordinate to the location of index a
DStart(a) == calculate_distance(start.value[1], start.value[2],
                                At(coords, a)[1], At(coords, a)[2])

\* C3: with two or more locations the route begins at 0 when no start is
\* given, and otherwise at the lowest index among the locations nearest to
\* start, for every start including (0, 0).
C3_FirstIndex ==
    Walking =>
        IF start.isNone THEN route[1] = 0
        ELSE /\ \A j \in Indices : DStart(route[1]) <= DStart(j)
             /\ \A j \in Indices : DStart(route[1]) = DStart(j) => route[1] <= j

C3_Witness ==
    /\ pc = "done"
    /\ Len(coords) >= 2
    /\ start = Some(<<0, 0>>)
    /\ route[1] # 0

\* C4: nearest_neighbor_route returns [] for no location and [0] for one,
\* whatever the start; optimize_route on one venue returns that venue alone
\* and a total distance of 0.
C4_TrivialInputs ==
    /\ (pc = "done" /\ entry # "optimize_route" /\ Len(coords) = 0) => nn_result = <<>>
    /\ (pc = "done" /\ entry # "optimize_route" /\ Len(coords) = 1) => nn_result = <<0>>
    /\ (pc = "done" /\ entry = "optimize_route" /\ Len(locations) = 1) =>
          opt_result = [kind |-> "pair", optimized |-> <<0>>, total_distance |-> 0]

C4_Witness ==
    /\ pc = "done"
    /\ entry = "nearest_neighbor_route"
    /\ Len(coords) = 1
    /\ start = Some(<<0, 2>>)
    /\ nn_result = <<0>>

-----------------------------------------------------------------------------
(* Properties of cluster_by_proximity *)

RECURSIVE Flatten(_)
Flatten(seqs) == IF seqs = <<>> THEN <<>> ELSE Head(seqs) \o Flatten(Tail(seqs))

InputIndices == 0 .. Len(locations) - 1

\* every input index occurs exactly once in seq, and nothing else does
ExactlyOnceEach(seq) ==
    /\ Len(seq) = Len(locations)
    /\ Elems(seq) = InputIndices

\* distance between the venues of input indices a and b
DVenue(a, b) ==
    calculate_distance(Get(At(locations, a), "latitude", 0), Get(At(locations, a), "longitude", 0),
                       Get(At(locations, b), "latitude", 0), Get(At(locations, b), "longitude", 0))

\* C6: the clusters partition the input: every venue is in exactly one cluster
\* exactly once (at every step: in a closed cluster, in the open one, or still
\* unassigned), no cluster is empty, nothing foreign appears, and a second
\* call on the same list returns the same clusters.
C6_ClustersPartitionInput ==
    /\ pc = "cl_outer" => ExactlyOnceEach(Flatten(clusters) \o unassigned)
    /\ pc = "cl_inner" => ExactlyOnceEach(Flatten(clusters) \o cluster \o unassigned)
    /\ (pc = "done" /\ entry = "cluster_by_proximity") =>
          /\ ExactlyOnceEach(Flatten(cl_result))
          /\ \A k \in DOMAIN cl_result : Len(cl_result[k]) > 0
          /\ runs >= 1 => prev_result = [kind |-> "list", items |-> cl_result]

\* a second call returned several clusters, one of them with several venues
C6_Witness ==
    /\ pc = "done"
    /\ entry = "cluster_by_proximity"
    /\ runs >= 1
    /\ Len(cl_result) >= 2
    /\ \E k \in DOMAIN cl_result : Len(cl_result[k]) >= 2

\* venues in the clusters before the k-th
InEarlier(k) == Elems(Flatten(SubSeq(cl_result, 1, k - 1)))

\* C7: a cluster's first member is its seed, the earliest input venue not in
\* an earlier cluster, and every other member is within max_distance_km of
\* that seed's coordinate.
C7_MembersWithinRadiusOfSeed ==
    /\ pc = "cl_inner" => cluster_center = CenterOf(locations, cluster)
    /\ (pc = "done" /\ entry = "cluster_by_proximity") =>
          \A k \in DOMAIN cl_result :
              /\ cl_result[k][1] \in InputIndices \ InEarlier(k)
              /\ \A a \in InputIndices \ InEarlier(k) : cl_result[k][1] <= a
              /\ \A m \in 2 .. Len(cl_result[k]) :
                    DVenue(cl_result[k][1], cl_result[k][m]) <= max_distance_km

\* the seed took one venue and left another that is within the radius of the
\* one it took
C7_Witness ==
    /\ pc = "done"
    /\ entry = "cluster_by_proximity"
    /\ Len(cl_result) = 2
    /\ Len(cl_result[1]) = 2
    /\ DVenue(cl_result[1][1], cl_result[1][2]) > 0
    /\ DVenue(cl_result[1][2], cl_result[2][1]) <= max_distance_km
    /\ DVenue(cl_result[1][1], cl_result[2][1]) > max_distance_km

-----------------------------------------------------------------------------
(* Properties of calculate_travel_time *)

\* the speeds the documentation states, km/h
StatedSpeed == [driving |-> 50, walking |-> 5, transit |-> 30, cycling |-> 15]

\* r tenths of a minute is d metres at s km/h, to the nearest tenth
NearestTenth(r, d, s) ==
    LET twice == 2 * (r * 1000 * s - 600 * d)
    IN  -(1000 * s) <= twice /\ twice <= 1000 * s

TimeDone == pc = "done" /\ entry = "calculate_travel_time"

\* C8: the result is distance / speed * 60 rounded to one decimal, with speed
\* 50 driving, 5 walking, 30 transit, 15 cycling; 100 km driving and 10 km
\* walking both give 120.0 minutes.
C8_TravelTimeFormula ==
    /\ (TimeDone /\ mode \in DOMAIN StatedSpeed) =>
          NearestTenth(tt_result, distance_km, StatedSpeed[mode])
    /\ (TimeDone /\ mode = "driving" /\ distance_km = 100000) => tt_result = 1200
    /\ (TimeDone /\ mode = "walking" /\ distance_km = 10000) => tt_result = 1200

\* 0.4 km by car: 0.48 minutes, returned as 0.5
C8_Witness ==
    /\ TimeDone
    /\ mode = "driving"
    /\ distance_km = 400
    /\ tt_result = 5

\* C9: a mode outside the table, or no mode, gives the driving result for the
\* same distance; the call returns a value.
C9_UnknownModeIsDriving ==
    (TimeDone /\ (mode_arg.isNone \/ mode \notin {"driving", "walking", "transit", "cycling"})) =>
        /\ tt_result = calculate_travel_time(distance_km, "driving")
        /\ NearestTenth(tt_result, distance_km, 50)

C9_Witness ==
    /\ TimeDone
    /\ mode_arg = Some("flying")
    /\ distance_km = 100000
    /\ tt_result = 1200

-----------------------------------------------------------------------------
(* app.py: get_hotel_coordinates *)

\* app.py:194, `files[:5]`
MaxFilesScanned == 5

\* how a piece of code ends: it returns a value, it raises, or it runs to its
\* end and control goes on after it
Return(v) == [kind |-> "return", value |-> v]
Raise == [kind |-> "raise", value |-> None]
GoOn == [kind |-> "go on", value |-> None]

\* app.py:201-206 on data['location']: a list is taken as it is, a string is
\* eval'ed (and may fail to), len() fails on a number and float() on what is
\* no number; a location shorter than two is passed over
ParseLocation(loc) ==
    IF loc.kind = "str" /\ ~loc.evaluates THEN Raise
    ELSE IF loc.kind = "number" THEN Raise
    ELSE IF Len(loc.items) >= 2
         THEN IF loc.numeric THEN Return(Some(<<loc.items[1], loc.items[2]>>)) ELSE Raise
         ELSE GoOn

\* app.py:198-206, the body of the inner try for one line
LineBody(line, hotel_name) ==
    IF ~line.json THEN Raise
    ELSE IF /\ "hotel_name" \in DOMAIN line.data
            /\ line.data["hotel_name"] = hotel_name
            /\ "location" \in DOMAIN line.data
         THEN ParseLocation(line.data["location"])
         ELSE GoOn

\* lets the exception through
NoExcept(outcome) == outcome

\* app.py:207-208, `except: continue`
InnerExcept(outcome) == IF outcome.kind = "raise" THEN GoOn ELSE outcome

\* app.py:196-208, the lines k .. of one file; reading a line that does not
\* decode raises in the `for` statement, outside the inner try
RECURSIVE ScanLines(_, _, _)
ScanLines(lines, k, hotel_name) ==
    IF k > Len(lines) THEN GoOn
    ELSE IF "undecodable" \in DOMAIN lines[k] THEN Raise
    ELSE LET outcome == InnerExcept(LineBody(lines[k], hotel_name))
         IN  IF outcome.kind = "go on" THEN ScanLines(lines, k + 1, hotel_name)
             ELSE outcome

\* app.py:194-208, the files f .. of the first five; open() raises on an
\* unreadable file
RECURSIVE ScanFiles(_, _, _)
ScanFiles(files, f, hotel_name) ==
    IF f > Len(files) \/ f > MaxFilesScanned THEN GoOn
    ELSE IF ~files[f].readable THEN Raise
    ELSE LET outcome == ScanLines(files[f].lines, 1, hotel_name)
         IN  IF outcome.kind = "go on" THEN ScanFiles(files, f + 1, hotel_name)
             ELSE outcome

\* app.py:209-210, `except: pass`
OuterExcept(outcome) == IF outcome.kind = "raise" THEN GoOn ELSE outcome

\* app.py:188-211: how the call ends
HotelCoordinates(hotel_name, address, files) ==
    LET outcome == OuterExcept(ScanFiles(files, 1, hotel_name))
    IN  IF outcome.kind = "go on" THEN Return(None) ELSE outcome

\* app.py:188-211, the value returned: Some(<<lat, lon>>) or None
get_hotel_coordinates(hotel_name, address, files) ==
    HotelCoordinates(hotel_name, address, files).value

-----------------------------------------------------------------------------
(* app.py: extract_locations *)

\* plan.get('attractions', {}).items(), plan.get('restaurants', {}).items():
\* the days in insertion order (travel_planner.py:345, restaurant_recommender.py:218)
DayKeys == <<"Day 1", "Day 2">>

\* app.py:121
TimeSlots == <<"morning", "evening">>

\* restaurant_recommender.py:208
Meals == <<"breakfast", "lunch", "dinner">>

\* truth value of a number or of None
NonZero(x) == x # 0 /\ x # Null

\* present under both keys, whatever the values
HasBothKeys(d) == "latitude" \in DOMAIN d /\ "longitude" \in DOMAIN d

\* app.py:98-116 for one hotel: the locations it adds (one or none).
\* price, rating and address are copied through and play no part in routing;
\* they are left out here.
HotelLocation(hotel, files) ==
    LET lat0 == Get(hotel, "latitude", 0)
        lng0 == Get(hotel, "longitude", 0)
        found == IF lat0 = 0 /\ lng0 = 0
                 THEN get_hotel_coordinates(Get(hotel, "name", ""), "", files)
                 ELSE None
        lat == IF ~found.isNone THEN found.value[1] ELSE lat0
        lng == IF ~found.isNone THEN found.value[2] ELSE lng0
    IN  IF lat # 0 /\ lng # 0
        THEN <<[name |-> Get(hotel, "name", "Hotel"), type |-> "hotel",
                lat |-> lat, lng |-> lng]>>
        ELSE <<>>

\* app.py:123, `attraction.get('latitude') and attraction.get('longitude')`
AttractionLocated(attraction) ==
    /\ "latitude" \in DOMAIN attraction /\ NonZero(attraction["latitude"])
    /\ "longitude" \in DOMAIN attraction /\ NonZero(attraction["longitude"])

\* app.py:122-133 for one attraction
AttractionLocation(attraction, day_key, time_slot) ==
    IF AttractionLocated(attraction)
    THEN <<[name |-> Get(attraction, "name", "Attraction"), type |-> "attraction",
            lat |-> Get(attraction, "latitude", 0), lng |-> Get(attraction, "longitude", 0),
            day |-> day_key, time |-> time_slot]>>
    ELSE <<>>

\* skips a restaurant whose coordinates are zero
RestaurantLocatedNonZero(restaurant) ==
    /\ HasBothKeys(restaurant)
    /\ NonZero(restaurant["latitude"])
    /\ NonZero(restaurant["longitude"])

\* app.py:139, `'latitude' in restaurant and 'longitude' in restaurant`
RestaurantLocated(restaurant) == HasBothKeys(restaurant)

\* app.py:138-149 for one restaurant
RestaurantLocation(restaurant, day_key, meal_type) ==
    IF RestaurantLocated(restaurant)
    THEN <<[name |-> Get(restaurant, "name", "Restaurant"), type |-> "restaurant",
            lat |-> Get(restaurant, "latitude", 0), lng |-> Get(restaurant, "longitude", 0),
            meal |-> meal_type, day |-> day_key]>>
    ELSE <<>>

\* app.py:93-151
extract_locations(p, files) ==
    LET hotels == Flatten([k \in DOMAIN p.hotels |-> HotelLocation(p.hotels[k], files)])
        attractions ==
            Flatten([d \in DOMAIN DayKeys |->
                Flatten([t \in DOMAIN TimeSlots |->
                    LET list == p.attractions[DayKeys[d]][TimeSlots[t]]
                    IN  Flatten([k \in DOMAIN list |->
                            AttractionLocation(list[k], DayKeys[d], TimeSlots[t])])])])
        restaurants ==
            Flatten([d \in DOMAIN DayKeys |->
                Flatten([m \in DOMAIN Meals |->
                    LET list == p.restaurants[DayKeys[d]][Meals[m]]
                    IN  Flatten([k \in DOMAIN list |->
                            RestaurantLocation(list[k], DayKeys[d], Meals[m])])])])
    IN  hotels \o attractions \o restaurants

\* app.py:127-128: float() of a coordinate that passed the test of line 123
AttractionRaises(attraction) ==
    /\ AttractionLocated(attraction)
    /\ \/ FloatRaises(Get(attraction, "latitude", 0))
       \/ FloatRaises(Get(attraction, "longitude", 0))

\* app.py:93-151: whether extract_locations raises instead of returning
ExtractRaises(p) ==
    \E d \in Elems(DayKeys), t \in Elems(TimeSlots) :
        \E a \in Elems(p.attractions[d][t]) : AttractionRaises(a)

-----------------------------------------------------------------------------
(* app.py: calculate_route *)

\* route_optimizer.py:60-98 as one call with no start_location: the venues in
\* route order, distance_to_next written into them, and the total
optimize_route(locs) ==
    IF Len(locs) = 0 THEN [kind |-> "list", items |-> <<>>]
    ELSE LET order == nearest_neighbor_route(CoordsOf(locs), None)
             done  == Annotate(locs, order)
         IN  [kind |-> "pair",
              optimized |-> [k \in DOMAIN order |-> At(done.heap, order[k])],
              total_distance |-> done.total]

\* puts a venue without a day into the last day
DayOfDefaultLast(loc) == Get(loc, "day", DayKeys[Len(DayKeys)])

\* app.py:163
DayOf(loc) == Get(loc, "day", "Day 1")

\* app.py:161-166: the days in order of first appearance
RECURSIVE DaysInOrder(_, _)
DaysInOrder(locs, seen) ==
    IF locs = <<>> THEN seen
    ELSE DaysInOrder(Tail(locs),
                     IF DayOf(Head(locs)) \in Elems(seen) THEN seen
                     ELSE Append(seen, DayOf(Head(locs))))

\* gives every day all the locations
LocationsOfAnyDay(locs, day) == locs

\* app.py:166: the locations of one day, in extraction order
LocationsOfDay(locs, day) == SelectSeq(locs, LAMBDA l : DayOf(l) = day)

\* app.py:173-174
ForOptimizer(l) == SetItem(SetItem(l, "latitude", l.lat), "longitude", l.lng)

\* app.py:170-184 for one day
DayRoute(day_locations) ==
    IF Len(day_locations) > 1
    THEN LET locs_for_opt == [k \in DOMAIN day_locations |-> ForOptimizer(day_locations[k])]
             result == optimize_route(locs_for_opt)
         IN  [locations |-> result.optimized, total_distance_km |-> result.total_distance]
    ELSE [locations |-> day_locations, total_distance_km |-> 0]

\* app.py:153-186; a dict is its keys in insertion order and its items
calculate_route(p, files) ==
    LET locs == extract_locations(p, files)
    IN  IF Len(locs) < 2 THEN [kind |-> "list", items |-> <<>>]
        ELSE LET days == DaysInOrder(locs, <<>>)
             IN  [kind |-> "dict",
                  keys |-> days,
                  items |-> [day \in Elems(days) |-> DayRoute(LocationsOfDay(locs, day))]]

\* route_optimizer.py:60-98 on two or more venues: every venue is an argument
\* of some calculate_distance call (lines 40, 50, 88), none of them guarded
OptimizeRaises(locs, geopy2) ==
    \E j, k \in DOMAIN locs :
        /\ j # k
        /\ DistanceRaises(Get(locs[j], "latitude", 0), Get(locs[j], "longitude", 0),
                          Get(locs[k], "latitude", 0), Get(locs[k], "longitude", 0),
                          geopy2)

\* app.py:153-186: whether calculate_route raises instead of returning
RouteRaises(p, files, geopy2) ==
    LET locs == extract_locations(p, files)
    IN  /\ Len(locs) >= 2
        /\ \E day \in Elems(DaysInOrder(locs, <<>>)) :
              LET day_locations == LocationsOfDay(locs, day)
              IN  /\ Len(day_locations) > 1
                  /\ OptimizeRaises([k \in DOMAIN day_locations |->
                                        ForOptimizer(day_locations[k])], geopy2)

-----------------------------------------------------------------------------
(* app.py: get_recommendations.  The recommenders fill the plan part by    *)
(* part, in the order of create_travel_plan (hotels, attractions of each   *)
(* day and time, restaurants of each day and meal); then the response is   *)
(* built.                                                                  *)

\* coordinates a recommender attaches: (0, 0) for none, and two places
PlanCoords == {<<0, 0>>, <<1, 1>>, <<1, 2>>}

\* coordinates of an attraction or a restaurant: those, and a latitude with a
\* null longitude (hotels go through float(), travel_planner.py:246-247)
VenueCoords == PlanCoords \cup {<<1, Null>>}

\* the parts of a plan, in the order they are filled
Slots ==
    <<[kind |-> "hotel"]>>
    \o Flatten([d \in DOMAIN DayKeys |->
           [t \in DOMAIN TimeSlots |-> [kind |-> "attraction", d |-> d, t |-> t]]])
    \o Flatten([d \in DOMAIN DayKeys |->
           [m \in DOMAIN Meals |-> [kind |-> "restaurant", d |-> d, m |-> m]]])

EmptyPlan ==
    [hotels |-> <<>>,
     attractions |-> [day \in Elems(DayKeys) |-> [t \in Elems(TimeSlots) |-> <<>>]],
     restaurants |-> [day \in Elems(DayKeys) |-> [m \in Elems(Meals) |-> <<>>]]]

\* every venue dict of the plan, hotels first
AllVenues(p) ==
    p.hotels
    \o Flatten([d \in DOMAIN DayKeys |-> Flatten([t \in DOMAIN TimeSlots |->
           p.attractions[DayKeys[d]][TimeSlots[t]]])])
    \o Flatten([d \in DOMAIN DayKeys |-> Flatten([m \in DOMAIN Meals |->
           p.restaurants[DayKeys[d]][Meals[m]]])])

\* lines of the secondary hotel files
LineBroken == [json |-> FALSE, data |-> <<>>]
LineNoLocation == [json |-> TRUE, data |-> [hotel_name |-> 0]]
LineList == [json |-> TRUE,
             data |-> [hotel_name |-> 0,
                       location |-> [kind |-> "list", evaluates |-> TRUE,
                                     numeric |-> TRUE, items |-> <<1, 2>>]]]
LineString == [json |-> TRUE,
               data |-> [hotel_name |-> 0,
                         location |-> [kind |-> "str", evaluates |-> TRUE,
                                       numeric |-> TRUE, items |-> <<1, 1>>]]]
LineOtherHotel == [json |-> TRUE,
                   data |-> [hotel_name |-> 1,
                             location |-> [kind |-> "list", evaluates |-> TRUE,
                                           numeric |-> TRUE, items |-> <<1, 1>>]]]

File(lines) == [readable |-> TRUE, lines |-> lines]

\* states of etl/del_dup: no file; the first hotel found after lines that do
\* not count; another hotel in the first file and the first hotel, as a
\* string, in the second
Datasets ==
    { <<>>,
      <<File(<<LineBroken, LineNoLocation, LineList>>)>>,
      <<File(<<LineOtherHotel>>), File(<<LineString>>)>> }

AppInit ==
    /\ entry = "get_recommendations"
    /\ pc = "plan"
    /\ runs = 0
    /\ locations = <<>>
    /\ prev_result = None
    /\ plan = EmptyPlan
    /\ last_slot = 1
    /\ dataset \in Datasets
    /\ response = None

\* travel_planner.py:240-248 (a hotel), 328-337 (an attraction),
\* restaurant_recommender.py:178-187 (a restaurant): the dict a recommender
\* appends; its name is the number of venues recommended before it
NewVenue(slot, c, id) ==
    IF slot.kind = "hotel"
    THEN [name |-> id, latitude |-> c[1], longitude |-> c[2]]
    ELSE IF slot.kind = "attraction"
    THEN [name |-> id, latitude |-> c[1], longitude |-> c[2],
          day |-> slot.d, time |-> TimeSlots[slot.t]]
    ELSE [name |-> id, latitude |-> c[1], longitude |-> c[2],
          meal_type |-> Meals[slot.m]]

\* travel_planner.py:230 (at most 5 hotels), travel_planner.py:326-336 (2
\* attractions a time slot), restaurant_recommender.py:216 (2 restaurants a meal)
MaxHotels == 5
PerSlot == 2

\* the venues already in a part of the plan
InSlot(p, slot) ==
    IF slot.kind = "hotel" THEN p.hotels
    ELSE IF slot.kind = "attraction" THEN p.attractions[DayKeys[slot.d]][TimeSlots[slot.t]]
    ELSE p.restaurants[DayKeys[slot.d]][Meals[slot.m]]

\* travel_planner.py:131-158: a recommender adds one venue to the plan
Recommend(s, c) ==
    /\ pc = "plan"
    /\ s >= last_slot
    /\ Slots[s].kind = "hotel" => c \in PlanCoords
    /\ Len(AllVenues(plan)) < MaxVenues
    /\ Len(InSlot(plan, Slots[s])) < (IF Slots[s].kind = "hotel" THEN MaxHotels ELSE PerSlot)
    /\ LET slot  == Slots[s]
           venue == NewVenue(slot, c, Len(AllVenues(plan)))
       IN  plan' =
             IF slot.kind = "hotel"
             THEN [plan EXCEPT !.hotels = Append(@, venue)]
             ELSE IF slot.kind = "attraction"
             THEN [plan EXCEPT !.attractions[DayKeys[slot.d]][TimeSlots[slot.t]] = Append(@, venue)]
             ELSE [plan EXCEPT !.restaurants[DayKeys[slot.d]][Meals[slot.m]] = Append(@, venue)]
    /\ last_slot' = s
    /\ UNCHANGED <<pc, entry, runs, locations, prev_result, dataset, response>>

\* the dict handed to optimize_route is the extracted one itself
SharesDict(original, passed) == passed

\* app.py:173-174: the dict handed to optimize_route is a new one, so what is
\* written into it does not show in the extracted one
WrittenBack(original, passed) == original

\* the venue of a route that stems from the location l
RoutedAs(routed, l) == routed[CHOOSE k \in DOMAIN routed : routed[k].name = l.name]

\* app.py:155-186: calculate_route's own `locations` list, extracted as locs,
\* when calculate_route returns r
LocationsAfterRoute(locs, r) ==
    IF r.kind = "list" THEN locs
    ELSE [k \in DOMAIN locs |->
             IF Len(r.items[DayOf(locs[k])].locations) > 1
             THEN WrittenBack(locs[k], RoutedAs(r.items[DayOf(locs[k])].locations, locs[k]))
             ELSE locs[k]]

\* the attractions and the restaurants of the day are collected
CollectsTheDay(p, day) ==
    Flatten([t \in DOMAIN TimeSlots |-> p.attractions[day][TimeSlots[t]]])
    \o Flatten([k \in DOMAIN Meals |-> p.restaurants[day][Meals[k]]])

\* travel_planner.py:408-412: the day's `locations` when line 414 tests it;
\* the list is created empty and nothing is appended to it
CollectedLocations(p, day) == <<>>

\* travel_planner.py:414-420 for one day whose list is not empty
OptimizedDay(day_locations) ==
    LET result == optimize_route(day_locations)
    IN  [route |-> result.optimized,
         total_distance_km |-> result.total_distance,
         estimated_time_minutes |->
             calculate_travel_time(result.total_distance, "driving")]

\* travel_planner.py:402-422 (_optimize_routes); plan['days'] is the number
\* of day keys; a dict is its keys in insertion order and its items
optimize_routes(p) ==
    LET filled == SelectSeq(DayKeys, LAMBDA day : CollectedLocations(p, day) # <<>>)
    IN  [keys |-> filled,
         items |-> [day \in Elems(filled) |-> OptimizedDay(CollectedLocations(p, day))]]

\* app.py:74-91: the response, or the error response of the except clause
\* when extract_locations or calculate_route raises; route_optimization is
\* the entry of that name of the plan (travel_planner.py:172-173); `locations` is the list
\* of app.py:155 as calculate_route leaves it
Respond(geopy2) ==
    /\ pc = "plan"
    /\ response' = IF ExtractRaises(plan) \/ RouteRaises(plan, dataset, geopy2)
                   THEN [success |-> FALSE, error |-> "exception"]
                   ELSE [success |-> TRUE,
                         plan |-> plan,
                         route_optimization |-> optimize_routes(plan),
                         locations |-> extract_locations(plan, dataset),
                         route |-> calculate_route(plan, dataset)]
    /\ locations' = IF response'.success
                    THEN LocationsAfterRoute(response'.locations, response'.route)
                    ELSE <<>>
    /\ pc' = "done"
    /\ UNCHANGED <<entry, runs, prev_result, plan, last_slot, dataset>>

AppNext ==
    \/ (\E s \in DOMAIN Slots, c \in VenueCoords : Recommend(s, c))
          /\ UNCHANGED <<nnVars, clusterVars, timeVars, extraVars>>
    \/ (\E geopy2 \in BOOLEAN : Respond(geopy2))
          /\ UNCHANGED <<nnVars, clusterVars, timeVars, extraVars>>

InitApp == AppInit /\ RouteIdle /\ ClusterIdle /\ TimeIdle /\ ExtraIdle

SpecApp == InitApp /\ [][AppNext]_vars

-----------------------------------------------------------------------------
(* get_hotel_coordinates called on its own *)

MaxFiles == 2           \* files in etl/del_dup

\* more lines: a location string that does not evaluate, a location of one
\* element, one whose elements are no numbers, one that is a number, and
\* bytes that do not decode
LineBadString == [json |-> TRUE,
                  data |-> [hotel_name |-> 0,
                            location |-> [kind |-> "str", evaluates |-> FALSE,
                                          numeric |-> FALSE, items |-> <<>>]]]
LineShort == [json |-> TRUE,
              data |-> [hotel_name |-> 0,
                        location |-> [kind |-> "list", evaluates |-> TRUE,
                                      numeric |-> TRUE, items |-> <<1>>]]]
LineNotNumeric == [json |-> TRUE,
                   data |-> [hotel_name |-> 0,
                             location |-> [kind |-> "list", evaluates |-> TRUE,
                                           numeric |-> FALSE, items |-> <<1, 2>>]]]
LineNumber == [json |-> TRUE,
               data |-> [hotel_name |-> 0,
                         location |-> [kind |-> "number", evaluates |-> TRUE,
                                       numeric |-> TRUE, items |-> <<>>]]]
LineUndecodable == [json |-> FALSE, data |-> <<>>, undecodable |-> TRUE]

Unreadable == [readable |-> FALSE, lines |-> <<>>]

FileKinds ==
    { Unreadable,
      File(<<>>),
      File(<<LineBroken, LineList>>),
      File(<<LineNoLocation, LineString>>),
      File(<<LineBadString>>),
      File(<<LineShort, LineOtherHotel>>),
      File(<<LineNotNumeric>>),
      File(<<LineNumber>>),
      File(<<LineUndecodable, LineList>>),
      File(<<LineOtherHotel>>) }

\* hotel names asked for: two that the files know and one they do not
LookupNames == 0 .. 2

\* directories of five and of six files: the hotel's record is in the last
\* file and in no other
LongDatasets ==
    {[f \in 1 .. n |-> IF f = n THEN File(<<LineBroken, LineList>>)
                                ELSE File(<<LineOtherHotel>>)] :
        n \in MaxFilesScanned .. MaxFilesScanned + 1}

ResolverInit ==
    /\ entry = "get_hotel_coordinates"
    /\ pc = "hc_call"
    /\ runs = 0
    /\ locations = <<>>
    /\ prev_result = None
    /\ plan = None
    /\ last_slot = 0
    /\ response = None
    /\ dataset \in SeqsUpTo(FileKinds, MaxFiles) \cup LongDatasets
    /\ lookup_name \in LookupNames
    /\ coords_result = None

\* app.py:188-211
Resolve ==
    /\ pc = "hc_call"
    /\ coords_result' = HotelCoordinates(lookup_name, "", dataset)
    /\ pc' = "done"
    /\ UNCHANGED <<entry, runs, locations, prev_result, appVars, lookup_name>>

ResolverNext ==
    Resolve /\ UNCHANGED <<nnVars, clusterVars, timeVars, distanceVars, trafficVars,
                           requestVars>>

InitResolver ==
    ResolverInit /\ RouteIdle /\ ClusterIdle /\ TimeIdle /\ DistanceIdle /\ TrafficIdle
                 /\ RequestsIdle

SpecResolver == InitResolver /\ [][ResolverNext]_vars

Resolved == pc = "done" /\ entry = "get_hotel_coordinates"

\* the first of the files scanned that cannot be read, 0 if all can
FirstUnreadable ==
    LET bad == {f \in DOMAIN dataset : f <= MaxFilesScanned /\ ~dataset[f].readable}
    IN  IF bad = {} THEN 0 ELSE CHOOSE f \in bad : \A g \in bad : f <= g

\* C17: whatever the files hold (none, unreadable, broken lines, a matching
\* record with a missing or malformed location), get_hotel_coordinates returns
\* - it never raises - and returns None or a pair of numbers; it returns None
\* when no file is there.
C17_LookupNeverRaises ==
    Resolved =>
        /\ coords_result.kind = "return"
        /\ \/ coords_result.value = None
           \/ /\ ~coords_result.value.isNone
              /\ Len(coords_result.value.value) = 2
              /\ \A k \in 1 .. 2 : coords_result.value.value[k] \in Int
        /\ dataset = <<>> => coords_result.value = None

\* a file that cannot be opened ended the scan: None although a later file
\* holds the hotel
C17_Witness ==
    /\ Resolved
    /\ Len(dataset) = 2
    /\ ~dataset[1].readable
    /\ dataset[2] = File(<<LineBroken, LineList>>)
    /\ lookup_name = 0
    /\ coords_result = Return(None)

-----------------------------------------------------------------------------
(* traffic_api.py: TrafficAPI.get_route *)

\* truth value of the API key: None and '' are false
KeyGiven(key) == ~key.isNone /\ key.value # ""

\* traffic_api.py:61-63 (99-101): requests.get with timeout=5,
\* raise_for_status, response.json(): the decoded answer, or an exception
\* when the service is not reached, times out, answers with an HTTP error
\* status or with what is no JSON
ServiceCall(svc) ==
    IF svc.reach = "answered" THEN Return([ok |-> svc.ok, routes |-> svc.routes])
    ELSE Raise

\* traffic_api.py:66-76 (104-111): the result built from the first route;
\* a route without the fields read raises KeyError.  Metres and seconds in,
\* metres (to 10) and tenths of a minute out.
FromService(data, name) ==
    LET first == data.routes[1]
    IN  IF {"distance", "duration"} \subseteq DOMAIN first
        THEN Return([distance_km |-> Round2(first.distance),
                     duration_minutes |-> RoundHalfEven(10 * first.duration, 60),
                     status |-> "success",
                     service |-> name])
        ELSE Raise

\* traffic_api.py:119-133
fallback_route(org, dst, md) ==
    LET dist == calculate_distance(org[1], org[2], dst[1], dst[2])
    IN  [distance_km |-> Round2(dist),
         duration_minutes |-> calculate_travel_time(dist, md),
         status |-> "estimated",
         service |-> "fallback"]

\* traffic_api.py:53-79 (91-113), the body of the try
RouteBody(org, dst, md, svc, name) ==
    LET got == ServiceCall(svc)
    IN  IF got.kind = "raise" THEN Raise
        ELSE IF got.value.ok /\ Len(got.value.routes) > 0
             THEN FromService(got.value, name)
             ELSE Return(fallback_route(org, dst, md))

\* has no except clause
ExceptNothing(outcome, org, dst, md) == outcome

\* traffic_api.py:81-83 (115-117), `except Exception`: the fallback
ExceptFallback(outcome, org, dst, md) ==
    IF outcome.kind = "raise" THEN Return(fallback_route(org, dst, md)) ELSE outcome

\* traffic_api.py:47-83
get_osrm_route(org, dst, md, svc) ==
    ExceptFallback(RouteBody(org, dst, md, svc, "OSRM"), org, dst, md)

\* traffic_api.py:85-117
get_google_route(org, dst, md, svc) ==
    ExceptFallback(RouteBody(org, dst, md, svc, "Google Maps"), org, dst, md)

\* traffic_api.py:29-45
get_route(org, dst, md, key, osrm, svc) ==
    IF KeyGiven(key) /\ ~osrm
    THEN get_google_route(org, dst, md, svc)
    ELSE get_osrm_route(org, dst, md, svc)

\* routes a service may answer with: metres and seconds
GoodRoute == [distance |-> 156912, duration |-> 7531]
OtherRoute == [distance |-> 0, duration |-> 0]
MalformedRoute == [summary |-> "no legs"]

\* what the live service does with a request
ServiceAnswers ==
    {[reach |-> r, ok |-> FALSE, routes |-> <<>>] :
        r \in {"unavailable", "timeout", "http error", "no json"}}
    \cup {[reach |-> "answered", ok |-> ok, routes |-> routes] :
            ok \in BOOLEAN,
            routes \in {<<>>, <<GoodRoute>>, <<OtherRoute, GoodRoute>>, <<MalformedRoute>>}}

TrafficInit ==
    /\ entry = "get_route"
    /\ pc = "gr_call"
    /\ runs = 0
    /\ locations = <<>>
    /\ prev_result = None
    /\ origin \in RouteCoords
    /\ destination \in RouteCoords
    /\ library = "geopy2"
    /\ dist_result = None
    /\ google_api_key \in {None, Some(""), Some("key")}
    /\ use_osrm \in BOOLEAN
    /\ service \in ServiceAnswers
    /\ travel_mode \in ModeStrings
    /\ route_result = None

\* traffic_api.py:29-45
GetRoute ==
    /\ pc = "gr_call"
    /\ route_result' = get_route(origin, destination, travel_mode,
                                 google_api_key, use_osrm, service)
    /\ pc' = "done"
    /\ UNCHANGED <<entry, runs, locations, prev_result, distanceVars,
                   google_api_key, use_osrm, service, travel_mode>>

TrafficNext ==
    GetRoute /\ UNCHANGED <<nnVars, clusterVars, timeVars, appVars, resolverVars,
                            requestVars>>

InitTraffic ==
    TrafficInit /\ RouteIdle /\ ClusterIdle /\ TimeIdle /\ AppIdle /\ ResolverIdle
                /\ RequestsIdle

SpecTraffic == InitTraffic /\ [][TrafficNext]_vars

RouteGot == pc = "done" /\ entry = "get_route"

\* the service answered OK with at least one route
ServiceGaveRoute == service.reach = "answered" /\ service.ok /\ Len(service.routes) > 0

\* speed the estimate uses for a mode, km/h
EstimateSpeed(md) == IF md \in DOMAIN StatedSpeed THEN StatedSpeed[md] ELSE 50

\* C18: get_route returns, whatever the service does; its status is 'success'
\* only when the service answered OK with a route, and it is 'estimated', with
\* the distance of calculate_distance and the duration of
\* calculate_travel_time for the mode asked, whenever the service was not
\* reached, failed, timed out or gave no route.
C18_SuccessOnlyFromService ==
    RouteGot =>
        /\ route_result.kind = "return"
        /\ route_result.value.status \in {"success", "estimated"}
        /\ route_result.value.status = "success" => ServiceGaveRoute
        /\ ~ServiceGaveRoute =>
              LET dist == GeodesicMetres[<<origin[1], destination[1],
                                           Abs(origin[2] - destination[2])>>]
              IN  /\ route_result.value.status = "estimated"
                  /\ route_result.value.distance_km = Round2(dist)
                  /\ NearestTenth(route_result.value.duration_minutes, dist,
                                  EstimateSpeed(travel_mode))

\* the service timed out and the walking estimate for a degree of longitude
\* came back
C18_Witness ==
    /\ RouteGot
    /\ service.reach = "timeout"
    /\ travel_mode = "walking"
    /\ route_result.value.status = "estimated"
    /\ route_result.value.distance_km = 111320

-----------------------------------------------------------------------------
(* calculate_distance called on its own *)

\* latitudes: the equator, one degree north, the pole, beyond the pole, NaN
DistLats == {0, 1, 90, 181, NaN}

\* longitudes: both names of the antimeridian, one degree east of it, one
\* degree beyond it, NaN
DistLons == {-180, 179, 180, 181, NaN}

DistPoints == DistLats \X DistLons

DistanceInit ==
    /\ entry = "calculate_distance"
    /\ pc = "cd_call"
    /\ runs = 0
    /\ locations = <<>>
    /\ prev_result = None
    /\ origin \in DistPoints
    /\ destination \in DistPoints
    /\ library \in {"geopy1", "geopy2"}
    /\ dist_result = None

\* route_optimizer.py:10-14
Distance ==
    /\ pc = "cd_call"
    /\ dist_result' =
          IF DistanceRaises(origin[1], origin[2], destination[1], destination[2],
                            library = "geopy2")
          THEN Raise
          ELSE Return(calculate_distance(origin[1], origin[2],
                                         destination[1], destination[2]))
    /\ pc' = "done"
    /\ UNCHANGED <<entry, runs, locations, prev_result, origin, destination, library>>

DistanceNext ==
    Distance /\ UNCHANGED <<nnVars, clusterVars, timeVars, appVars, resolverVars,
                            trafficVars, requestVars>>

InitDistance ==
    DistanceInit /\ RouteIdle /\ ClusterIdle /\ TimeIdle /\ AppIdle /\ ResolverIdle
                 /\ TrafficIdle /\ RequestsIdle

SpecDistance == InitDistance /\ [][DistanceNext]_vars

DistanceDone == pc = "done" /\ entry = "calculate_distance"

\* a coordinate pair of the data model: numbers, latitude in [-90, 90],
\* longitude in [-180, 180]
ValidPoint(pt) ==
    /\ NaN \notin {pt[1], pt[2]}
    /\ -90 <= pt[1] /\ pt[1] <= 90
    /\ -180 <= pt[2] /\ pt[2] <= 180

\* two coordinate pairs of one place: the same latitude, and the same
\* longitude up to whole turns or both at a pole
SamePlace(a, b) ==
    /\ a[1] = b[1]
    /\ Abs(a[1]) = 90 \/ (a[2] - b[2]) % 360 = 0

\* the distance the other way round
Reversed == calculate_distance(destination[1], destination[2], origin[1], origin[2])

\* C19 as stated: for valid a and b the distance is the same both ways, not
\* negative, 0 when a equals b and 0 only when a equals b.
C19_ZeroOnlyWhenEqual ==
    (DistanceDone /\ ValidPoint(origin) /\ ValidPoint(destination)) =>
        /\ dist_result.kind = "return"
        /\ dist_result.value = Reversed
        /\ dist_result.value >= 0
        /\ origin = destination => dist_result.value = 0
        /\ dist_result.value = 0 => origin = destination

\* C19 amended: for valid a and b the distance is the same both ways, not
\* negative, 0 when a equals b, and 0 only when a and b are the same place
\* (equal, or differing by a whole turn of longitude, or both at one pole).
C19_ZeroOnlyAtSamePlace ==
    (DistanceDone /\ ValidPoint(origin) /\ ValidPoint(destination)) =>
        /\ dist_result.kind = "return"
        /\ dist_result.value = Reversed
        /\ dist_result.value >= 0
        /\ origin = destination => dist_result.value = 0
        /\ dist_result.value = 0 <=> SamePlace(origin, destination)

\* distance 0 between two different coordinate pairs of the antimeridian
C19_Witness ==
    /\ DistanceDone
    /\ origin = <<0, -180>>
    /\ destination = <<0, 180>>
    /\ dist_result = Return(0)

\* C20: calculate_distance raises on every input with a NaN, a latitude
\* outside [-90, 90] or a longitude outside [-180, 180], and returns no
\* distance for it.
C20_InvalidCoordinateRejected ==
    (DistanceDone /\ (~ValidPoint(origin) \/ ~ValidPoint(destination))) =>
        dist_result.kind = "raise"

-----------------------------------------------------------------------------
(* Properties of extract_locations and calculate_route *)

Responded == pc = "done" /\ entry = "get_recommendations"

\* names of the venues in some day's route
RoutedNames(r) ==
    IF r.kind = "list" THEN {}
    ELSE UNION {{l.name : l \in Elems(r.items[day].locations)} : day \in Elems(r.keys)}

\* the attractions and the restaurants of a plan
Attractions(p) ==
    Flatten([d \in DOMAIN DayKeys |-> Flatten([t \in DOMAIN TimeSlots |->
        p.attractions[DayKeys[d]][TimeSlots[t]]])])

Restaurants(p) ==
    Flatten([d \in DOMAIN DayKeys |-> Flatten([m \in DOMAIN Meals |->
        p.restaurants[DayKeys[d]][Meals[m]]])])

AtZero(v) == v.latitude = 0 /\ v.longitude = 0

\* a venue at (0, 0) that the fallback lookup does not resolve: the lookup
\* exists for hotels only
UnresolvedHotels(p) ==
    {h \in Elems(p.hotels) :
        AtZero(h) /\ get_hotel_coordinates(h.name, "", dataset).isNone}

UnresolvedAttractions(p) == {a \in Elems(Attractions(p)) : AtZero(a)}

UnresolvedRestaurants(p) == {r \in Elems(Restaurants(p)) : AtZero(r)}

\* C10 for hotels and attractions: those at (0, 0) with no fallback match are
\* in no day's route and still in the plan returned.
C10_HotelsAttractionsExcluded ==
    (Responded /\ response.success) =>
        /\ response.plan = plan
        /\ \A v \in UnresolvedHotels(plan) \cup UnresolvedAttractions(plan) :
              v.name \notin RoutedNames(response.route)

\* C10: a venue of any kind at (0, 0) with no fallback match is in no day's
\* route, and is still in the plan returned to the caller.
C10_ZeroCoordinateExcluded ==
    (Responded /\ response.success) =>
        /\ response.plan = plan
        /\ \A v \in UnresolvedHotels(plan) \cup UnresolvedAttractions(plan)
                      \cup UnresolvedRestaurants(plan) :
              v.name \notin RoutedNames(response.route)

\* a route was computed for a plan holding an attraction at (0, 0)
C10_HotelsAttractionsWitness ==
    /\ Responded
    /\ response.success
    /\ response.route.kind = "dict"
    /\ UnresolvedAttractions(plan) # {}

\* C11: whatever coordinates are missing, null or zero in the plan, the
\* request is answered with the itinerary (success), never with the error
\* response.
C11_MissingCoordinatesNeverAbort ==
    Responded => response.success

\* a route mapping was returned
Routed == Responded /\ response.success /\ response.route.kind = "dict"

\* the venues of a day's route, in route order
RouteOf(day) == response.route.items[day].locations

\* distance between two venues of a route
DLoc(a, b) == calculate_distance(a.lat, a.lng, b.lat, b.lng)

\* venue k of the list carries the distance to venue k + 1, to 10 metres
CarriesDistanceToNext(list, k) ==
    /\ "distance_to_next" \in DOMAIN list[k]
    /\ list[k].distance_to_next = Round2(DLoc(list[k], list[k + 1]))

\* the last venue of the list carries 0
LastCarriesZero(list) ==
    /\ "distance_to_next" \in DOMAIN list[Len(list)]
    /\ list[Len(list)].distance_to_next = 0

\* C12 for days of two or more venues: every venue but the last carries the
\* distance to its successor and the last carries 0.
C12_AnnotatedFromTwoVenues ==
    Routed =>
        \A day \in Elems(response.route.keys) :
            Len(RouteOf(day)) >= 2 =>
                /\ \A k \in 1 .. Len(RouteOf(day)) - 1 : CarriesDistanceToNext(RouteOf(day), k)
                /\ LastCarriesZero(RouteOf(day))

\* C12: in every day route every venue but the last carries the distance to
\* its successor, and the last venue carries 0, also when it is the only one.
C12_DistanceToNextAnnotated ==
    Routed =>
        \A day \in Elems(response.route.keys) :
            Len(RouteOf(day)) >= 1 =>
                /\ \A k \in 1 .. Len(RouteOf(day)) - 1 : CarriesDistanceToNext(RouteOf(day), k)
                /\ LastCarriesZero(RouteOf(day))

RECURSIVE SumSeq(_)
SumSeq(seq) == IF seq = <<>> THEN 0 ELSE Head(seq) + SumSeq(Tail(seq))

\* the distances between consecutive venues of a list: n - 1 terms
SegmentsOf(list) == [k \in 1 .. Len(list) - 1 |-> DLoc(list[k], list[k + 1])]

\* the distance_to_next values attached to the venues of a list
AttachedOf(list) ==
    LET has == SelectSeq(list, LAMBDA l : "distance_to_next" \in DOMAIN l)
    IN  [k \in DOMAIN has |-> has[k].distance_to_next]

TotalOf(day) == response.route.items[day].total_distance_km

LocatedOf(day) == LocationsOfDay(response.locations, day)

\* the day has the trivial route of its located venues: the one venue alone
\* with total 0, or no venue at all
TrivialDayRoute(day) ==
    IF Len(LocatedOf(day)) = 1
    THEN /\ response.route.kind = "dict"
         /\ day \in Elems(response.route.keys)
         /\ response.route.items[day] = [locations |-> LocatedOf(day), total_distance_km |-> 0]
    ELSE response.route.kind = "dict" => day \notin Elems(response.route.keys)

\* C14 for plans with two or more located venues in total: a day with fewer
\* than two of them has the trivial route.
C14_TrivialDayRouteWhenRouted ==
    Routed =>
        \A day \in Elems(DayKeys) : Len(LocatedOf(day)) < 2 => TrivialDayRoute(day)

\* C14: a day with fewer than two located venues has the trivial route of
\* those venues with total 0, also when the plan has one located venue in all.
C14_TrivialDayRoute ==
    (Responded /\ response.success) =>
        \A day \in Elems(DayKeys) : Len(LocatedOf(day)) < 2 => TrivialDayRoute(day)

\* C15: calculate_route returns to its caller, and what it returns is a mapping
\* from day label to a record of the venue list and total_distance_km; a day
\* without located venues has an empty route (or none) in it.
C15_RouteIsAlwaysMapping ==
    Responded =>
        /\ response.success
        /\ response.route.kind = "dict"
        /\ \A day \in Elems(response.route.keys) :
              DOMAIN response.route.items[day] = {"locations", "total_distance_km"}
        /\ \A day \in Elems(DayKeys) :
              (Len(LocatedOf(day)) = 0 /\ day \in Elems(response.route.keys)) =>
                  response.route.items[day].locations = <<>>

\* C15 for plans with two or more located venues whose route did not raise:
\* the mapping has one record for every day with a located venue and none for
\* the others.
C15_MappingWhenTwoLocated ==
    (Responded /\ response.success /\ Len(response.locations) >= 2) =>
        /\ response.route.kind = "dict"
        /\ \A day \in Elems(DayKeys) :
              day \in Elems(response.route.keys) <=> Len(LocatedOf(day)) > 0
        /\ \A day \in Elems(response.route.keys) :
              DOMAIN response.route.items[day] = {"locations", "total_distance_km"}

\* names of the venues in the route of a day ({} when the day has none)
NamesIn(day) ==
    IF day \in Elems(response.route.keys)
    THEN {l.name : l \in Elems(RouteOf(day))}
    ELSE {}

\* the day keys of the plan under which a venue of this name was recommended
\* as an attraction or a restaurant
PlanDaysOf(name) ==
    {d \in Elems(DayKeys) :
        \/ \E t \in Elems(TimeSlots) : \E a \in Elems(plan.attractions[d][t]) : a.name = name
        \/ \E m \in Elems(Meals) : \E r \in Elems(plan.restaurants[d][m]) : r.name = name}

\* C16: when the routes are grouped, every located hotel is in the "Day 1"
\* route and in no other, and every located attraction and restaurant is in
\* the route of the day key it was recommended under and in no other.
C16_HotelsInDayOne ==
    Routed =>
        \A k \in DOMAIN response.locations :
            LET l == response.locations[k]
            IN  IF l.type = "hotel"
                THEN \A d \in Elems(DayKeys) : l.name \in NamesIn(d) <=> d = "Day 1"
                ELSE \A d \in Elems(DayKeys) : l.name \in NamesIn(d) <=> d \in PlanDaysOf(l.name)

\* a hotel routed together with a venue recommended for the second day
C16_Witness ==
    /\ Routed
    /\ \E k \in DOMAIN response.locations : response.locations[k].type = "hotel"
    /\ \E k \in DOMAIN response.locations :
          /\ response.locations[k].type # "hotel"
          /\ response.locations[k].name \in NamesIn("Day 2")

-----------------------------------------------------------------------------
(* Termination of the two loops of route_optimizer.py.  The interpreter    *)
(* always takes the next step of a call in progress, so the steps are       *)
(* weakly fair.  A single call of each function is followed to its end.     *)

TerminateNext ==
    \/ NNCall /\ UNCHANGED <<clusterVars, timeVars, appVars, extraVars>>
    \/ NNStep /\ UNCHANGED <<clusterVars, timeVars, appVars, extraVars>>
    \/ NNReturn /\ UNCHANGED <<clusterVars, timeVars, appVars, extraVars>>
    \/ ClCall /\ UNCHANGED <<nnVars, timeVars, appVars, extraVars>>
    \/ ClSeed /\ UNCHANGED <<nnVars, timeVars, appVars, extraVars>>
    \/ ClScan /\ UNCHANGED <<nnVars, timeVars, appVars, extraVars>>
    \/ ClClose /\ UNCHANGED <<nnVars, timeVars, appVars, extraVars>>
    \/ ClReturn /\ UNCHANGED <<nnVars, timeVars, appVars, extraVars>>

InitTerminate == (InitRoute /\ entry = "nearest_neighbor_route") \/ InitCluster

SpecTerminate == InitTerminate /\ [][TerminateNext]_vars /\ WF_vars(TerminateNext)

\* the walk of nearest_neighbor_route is over
WalkOver == pc = "done" /\ entry = "nearest_neighbor_route" /\ Len(coords) >= 2

\* one iteration of the walk selects one index: the unvisited set loses
\* exactly that one and the route gains it
SelectionStep ==
    (pc = "nn_loop" /\ route' # route) =>
        /\ Len(route') = Len(route) + 1
        /\ unvisited' = unvisited \ {route'[Len(route')]}
        /\ Cardinality(unvisited') = Cardinality(unvisited) - 1

\* an outer iteration of the clustering takes the seed off the unassigned list
SeedStep ==
    (pc = "cl_outer" /\ pc' = "cl_inner") =>
        /\ Len(unassigned') = Len(unassigned) - 1
        /\ cluster' = <<At(unassigned, 0)>>

\* an inner iteration takes one venue off the unassigned list or moves the
\* scan index on by one
ScanStep ==
    (pc = "cl_inner" /\ pc' = "cl_inner") =>
        \/ Len(unassigned') = Len(unassigned) - 1 /\ cl_i' = cl_i
        \/ unassigned' = unassigned /\ cl_i' = cl_i + 1

\* C21: every call of nearest_neighbor_route and of cluster_by_proximity comes
\* to its end; the walk over n >= 2 locations ends after exactly n - 1
\* selection steps (the route starts with one index and every step adds one)
\* with the unvisited set empty, and the clustering ends with the unassigned
\* list empty; every outer iteration removes the seed and every inner one
\* removes a venue or advances the scan index.
C21_LoopsTerminate ==
    /\ <>[](pc = "done")
    /\ [](pc = "nn_loop" => Len(route) + Cardinality(unvisited) = Len(coords))
    /\ [](WalkOver => unvisited = {} /\ Len(route) = 1 + (Len(coords) - 1))
    /\ []((pc = "done" /\ entry = "cluster_by_proximity") => unassigned = <<>>)
    /\ [][SelectionStep]_vars
    /\ [][SeedStep]_vars
    /\ [][ScanStep]_vars

\* a walk over three locations has ended after two selection steps
C21_Witness ==
    /\ pc = "done"
    /\ entry = "nearest_neighbor_route"
    /\ Len(coords) = 3
    /\ Len(route) = 3
    /\ unvisited = {}

-----------------------------------------------------------------------------
(* optimize_route called again on the same venue list.  The list holds the  *)
(* caller's dicts, and the function returns those dicts; a caller that      *)
(* routes the list once more, from another start, passes venues that carry  *)
(* the distance_to_next of the call before.                                 *)

\* the caller calls optimize_route again on the same list with start st
RerunFrom(st) ==
    /\ pc = "done"
    /\ runs + 1 < MaxRuns
    /\ runs' = runs + 1
    /\ prev_result' = Returned
    /\ pc' = EntryPc(entry)
    /\ start' = st
    /\ coords' = <<>>
    /\ unvisited' = {}
    /\ route' = <<>>
    /\ current' = 0
    /\ nn_result' = <<>>
    /\ optimized' = <<>>
    /\ total_distance' = 0
    /\ opt_result' = None
    /\ UNCHANGED <<entry, locations>>

RerouteNext ==
    \/ NNCall /\ UNCHANGED <<clusterVars, timeVars, appVars, extraVars>>
    \/ NNStep /\ UNCHANGED <<clusterVars, timeVars, appVars, extraVars>>
    \/ NNReturn /\ UNCHANGED <<clusterVars, timeVars, appVars, extraVars>>
    \/ OptCall /\ UNCHANGED <<clusterVars, timeVars, appVars, extraVars>>
    \/ OptRest /\ UNCHANGED <<clusterVars, timeVars, appVars, extraVars>>
    \/ (\E st \in Starts : RerunFrom(st))
          /\ UNCHANGED <<clusterVars, timeVars, appVars, extraVars>>

InitReroute == InitRoute /\ entry = "optimize_route"

SpecReroute == InitReroute /\ [][RerouteNext]_vars

\* the input list has the same venues at the same positions after the step,
\* and no venue has lost a field
SameVenuesSameOrder ==
    /\ Len(locations') = Len(locations)
    /\ \A k \in DOMAIN locations : DOMAIN locations[k] \subseteq DOMAIN locations'[k]

\* every field a venue had before the step has its value after it
ExistingFieldsKept ==
    \A k \in DOMAIN locations :
        \A f \in DOMAIN locations[k] : locations'[k][f] = locations[k][f]

\* every field a venue had before the step, distance_to_next aside, has its
\* value after it
OtherFieldsKept ==
    \A k \in DOMAIN locations :
        \A f \in DOMAIN locations[k] \ {"distance_to_next"} :
            locations'[k][f] = locations[k][f]

\* the one field a step may add to a venue is distance_to_next
OnlyDistanceAdded ==
    \A k \in DOMAIN locations :
        DOMAIN locations'[k] \subseteq DOMAIN locations[k] \cup {"distance_to_next"}

\* nothing outside the call's own variables and the venue list changes
NoOtherEffect == UNCHANGED <<clusterVars, timeVars, appVars, extraVars>>

\* C22: no step of optimize_route changes the order of the input list or the
\* value of a field that an input venue already has; the one effect on a venue
\* is the distance_to_next field added to it, and nothing else is changed.
C22_VenuesImmutable ==
    [][ /\ SameVenuesSameOrder
        /\ ExistingFieldsKept
        /\ OnlyDistanceAdded
        /\ NoOtherEffect ]_vars

\* C22 without the derived field: no step of optimize_route changes the order
\* of the input list or a field other than distance_to_next, and nothing
\* else is changed.
C22_OtherFieldsKept ==
    [][ /\ SameVenuesSameOrder
        /\ OtherFieldsKept
        /\ OnlyDistanceAdded
        /\ NoOtherEffect ]_vars

-----------------------------------------------------------------------------
(* cluster_by_proximity: one pass, radius measured from the seed *)

IsPrefix(a, b) == Len(a) <= Len(b) /\ SubSeq(b, 1, Len(a)) = a

\* the cluster of the result that holds the venue of input index a
ClusterOf(a) == CHOOSE k \in DOMAIN cl_result : a \in Elems(cl_result[k])

Clustered == pc = "done" /\ entry = "cluster_by_proximity"

\* during a call a closed cluster is never changed, merged or reordered, the
\* open cluster only grows at its end, and a venue once taken off the
\* unassigned list never comes back
AssignmentStep ==
    pc # "done" =>
        /\ IsPrefix(clusters, clusters')
        /\ (pc = "cl_inner" /\ pc' = "cl_inner") => IsPrefix(cluster, cluster')
        /\ pc \in {"cl_outer", "cl_inner"} => Elems(unassigned') \subseteq Elems(unassigned)
        /\ pc' = "done" => cl_result' = clusters

\* C23: clustering is one pass: what a step has assigned no later step merges
\* or re-assigns, so two venues within max_distance_km of each other that were
\* put into different clusters stay apart in the result.
C23_AssignmentsAreFinal == [][AssignmentStep]_vars

\* two venues within the radius of each other in different clusters: the
\* first joined the seed before it, the second is outside that seed's radius
C23_Witness ==
    /\ Clustered
    /\ Len(locations) = 3
    /\ \E a, b \in InputIndices :
          /\ a # b
          /\ ClusterOf(a) = 1 /\ cl_result[1][1] # a
          /\ ClusterOf(b) = 2
          /\ DVenue(a, b) <= max_distance_km
          /\ DVenue(cl_result[1][1], b) > max_distance_km
          /\ DVenue(cl_result[1][1], a) <= max_distance_km

-----------------------------------------------------------------------------
(* get_hotel_coordinates: which record is returned *)

\* a location that parses to at least two numbers: a list, or a string that
\* evaluates to one
ParsesToPair(loc) ==
    /\ loc.kind = "list" \/ (loc.kind = "str" /\ loc.evaluates)
    /\ Len(loc.items) >= 2
    /\ loc.numeric

\* a record of the hotel asked for with such a location
GoodRecord(line, hotel_name) ==
    /\ line.json
    /\ "hotel_name" \in DOMAIN line.data
    /\ line.data["hotel_name"] = hotel_name
    /\ "location" \in DOMAIN line.data
    /\ ParsesToPair(line.data["location"])

\* the files that are scanned: the first five
Scanned(files) == {f \in DOMAIN files : f <= MaxFilesScanned}

\* positions <<file, line>> of the good records in the files scanned
GoodPositions(files, hotel_name) ==
    {<<f, k>> \in Scanned(files) \X (1 .. 3) :
        k <= Len(files[f].lines) /\ GoodRecord(files[f].lines[k], hotel_name)}

\* file order, then line order
Before(p, q) == p[1] < q[1] \/ (p[1] = q[1] /\ p[2] <= q[2])

\* the location of the first good record, None when there is none
FirstGood(files, hotel_name) ==
    LET good == GoodPositions(files, hotel_name)
    IN  IF good = {} THEN None
        ELSE LET p == CHOOSE p \in good : \A q \in good : Before(p, q)
                 loc == files[p[1]].lines[p[2]].data["location"]
             IN  Some(<<loc.items[1], loc.items[2]>>)

\* every file scanned opens and every line of it decodes
AllReadable(files) ==
    \A f \in Scanned(files) :
        /\ files[f].readable
        /\ \A k \in DOMAIN files[f].lines : "undecodable" \notin DOMAIN files[f].lines[k]

\* C24: the call returns the location of the first record, in file order and
\* then line order within the first five files, that names the hotel and
\* whose location parses to two numbers; records with a missing or malformed
\* location are passed over; it returns None when there is no such record.
C24_FirstGoodRecordReturned ==
    Resolved => coords_result = Return(FirstGood(dataset, lookup_name))

\* C24 when every scanned file opens and decodes
C24_FirstGoodWhenReadable ==
    (Resolved /\ AllReadable(dataset)) =>
        coords_result = Return(FirstGood(dataset, lookup_name))

\* the hotel's only record is in a sixth file: None
C24_SixthFileNotScanned ==
    /\ Resolved
    /\ Len(dataset) = MaxFilesScanned + 1
    /\ lookup_name = 0
    /\ coords_result = Return(None)

\* a malformed record of the hotel was passed over and a later one returned
C24_MalformedPassedOver ==
    /\ Resolved
    /\ Len(dataset) = 2
    /\ dataset[1] = File(<<LineNotNumeric>>)
    /\ dataset[2] = File(<<LineNoLocation, LineString>>)
    /\ lookup_name = 0
    /\ coords_result = Return(Some(<<1, 1>>))

-----------------------------------------------------------------------------
(* Requests served at the same time.  app.run (app.py:234) serves every    *)
(* request in a thread of its own, and all of them use the one `planner`    *)
(* of app.py:17 with its one RestaurantRecommender                          *)
(* (travel_planner.py:49).  A thread can be switched out between any two    *)
(* statements; a step below is one statement that reads or writes the       *)
(* recommender's attributes.  Hotels and attractions keep nothing on the    *)
(* planner between statements and are left out; every request asks for one  *)
(* day.                                                                     *)

MaxRequests == 2        \* requests in progress at the same time

Requests == 1 .. MaxRequests

\* yelp_academic_dataset_business.json: businesses of every kind, with no
\* price, rating or cuisine column
Businesses ==
    << [name |-> "Car Wash", city |-> "vancouver", categories |-> "Automotive"],
       [name |-> "Diner", city |-> "vancouver", categories |-> "Restaurant"],
       [name |-> "Cafe", city |-> "toronto", categories |-> "Restaurant"],
       [name |-> "Grill", city |-> "vancouver", categories |-> "Restaurant"] >>

\* restaurant_recommender.py:86-92, ratings in tenths
SampleRestaurants ==
    [k \in 1 .. 20 |->
        [name |-> k - 1,
         rating |-> 40 + ((k - 1) % 3) * 5,
         price |-> 20 + (k - 1) * 5,
         cuisine |-> <<"Italian", "Chinese", "Mexican", "Indian", "French">>[((k - 1) % 5) + 1],
         city |-> "vancouver"]]

\* a data frame: its rows, the request that assigned it and the request, if
\* any, that wrote its 'cluster' column
Frame(rows, r, c) == Some([rows |-> rows, loaded_by |-> r, clustered_by |-> c])

\* 'col' in df.columns
HasColumn(rows, col) == rows # <<>> /\ col \in DOMAIN rows[1]

\* restaurant_recommender.py:42-45
OnlyRestaurants(rows) ==
    IF HasColumn(rows, "categories")
    THEN SelectSeq(rows, LAMBDA row : row.categories = "Restaurant")
    ELSE rows

\* sort_values('rating', ascending=False): the highest rating first
RECURSIVE ByRating(_)
ByRating(rows) ==
    IF rows = <<>> THEN <<>>
    ELSE LET top == CHOOSE k \in DOMAIN rows :
                        /\ \A j \in DOMAIN rows : rows[k].rating >= rows[j].rating
                        /\ \A j \in DOMAIN rows : rows[j].rating = rows[k].rating => k <= j
         IN  <<rows[top]>> \o ByRating(PopAt(rows, top - 1))

\* df.head(n)
Head2(rows, n) == SubSeq(rows, 1, IF Len(rows) < n THEN Len(rows) ELSE n)

\* restaurant_recommender.py:153-189 on the frame read at line 154
recommend_by_meal(rows, city, meal_type, budget, cuisine_preference) ==
    LET inCity == IF HasColumn(rows, "city")
                  THEN SelectSeq(rows, LAMBDA row : row.city = city) ELSE rows
        inBudget == IF HasColumn(inCity, "price")
                    THEN SelectSeq(inCity, LAMBDA row : row.price <= budget) ELSE inCity
        ofCuisine == IF HasColumn(inBudget, "cuisine")
                     THEN SelectSeq(inBudget, LAMBDA row : row.cuisine = cuisine_preference)
                     ELSE inBudget
        filtered == IF Len(ofCuisine) = 0 THEN rows ELSE ofCuisine
        sorted == IF HasColumn(filtered, "rating") THEN ByRating(filtered) ELSE filtered
        recommendations == Head2(sorted, PerSlot)
    IN  [k \in DOMAIN recommendations |->
            [name |-> recommendations[k].name, meal_type |-> meal_type, city |-> city]]

\* app.py:38-44 and restaurant_recommender.py:205: a third of the food budget
\* of the default total of 1000
MealBudget == ((1000 * 3) \div 10) \div 3

\* restaurant_recommender.py:214 on day 1 with the preferences of app.py:60
CuisineOfDay == <<"Local", "Italian", "Asian">>[(1 % 3) + 1]

\* cities asked for
RequestCities == {"vancouver", "toronto"}

RequestsInit ==
    /\ entry = "get_recommendations"
    /\ pc = "serving"
    /\ runs = 0
    /\ locations = <<>>
    /\ prev_result = None
    /\ yelp \in BOOLEAN
    /\ restaurants_df = None
    /\ kmeans_model = 0
    /\ req_city \in [Requests -> RequestCities]
    /\ req_pc = [r \in Requests |-> "load"]
    /\ req_X = [r \in Requests |-> 0]
    /\ req_meals = [r \in Requests |-> <<>>]
    /\ req_response = [r \in Requests |-> None]

\* restaurant_recommender.py:40 (the Yelp file is read) or 53, 94 (the sample
\* data are made)
ReqLoad(r) ==
    /\ req_pc[r] = "load"
    /\ IF yelp
       THEN /\ restaurants_df' = Frame(Businesses, r, 0)
            /\ req_pc' = [req_pc EXCEPT ![r] = "filter"]
       ELSE /\ restaurants_df' = Frame(SampleRestaurants, r, 0)
            /\ req_pc' = [req_pc EXCEPT ![r] = "train"]
    /\ UNCHANGED <<yelp, kmeans_model, req_city, req_X, req_meals, req_response>>

\* restaurant_recommender.py:42-45
ReqFilter(r) ==
    /\ req_pc[r] = "filter"
    /\ restaurants_df' = Frame(OnlyRestaurants(restaurants_df.value.rows), r,
                               restaurants_df.value.clustered_by)
    /\ req_pc' = [req_pc EXCEPT ![r] = "train"]
    /\ UNCHANGED <<yelp, kmeans_model, req_city, req_X, req_meals, req_response>>

\* restaurant_recommender.py:101-114
ReqTrainRead(r) ==
    /\ req_pc[r] = "train"
    /\ IF restaurants_df.isNone \/ Len(restaurants_df.value.rows) = 0
       THEN /\ req_pc' = [req_pc EXCEPT ![r] = "meals"]
            /\ UNCHANGED req_X
       ELSE /\ req_X' = [req_X EXCEPT ![r] = Len(restaurants_df.value.rows)]
            /\ req_pc' = [req_pc EXCEPT ![r] = "fit"]
    /\ UNCHANGED <<yelp, restaurants_df, kmeans_model, req_city, req_meals, req_response>>

\* restaurant_recommender.py:117-120: the labels of X are written into the
\* frame that is there now; a column of another length is a ValueError, which
\* nothing catches before app.py:87
ReqFit(r) ==
    /\ req_pc[r] = "fit"
    /\ LET rows == restaurants_df.value.rows
           n_clusters == IF Len(rows) \div 3 < 5 THEN Len(rows) \div 3 ELSE 5
       IN  IF n_clusters > 0
           THEN /\ kmeans_model' = r
                /\ IF Len(rows) = req_X[r]
                   THEN /\ restaurants_df' = Frame(rows, restaurants_df.value.loaded_by, r)
                        /\ req_pc' = [req_pc EXCEPT ![r] = "meals"]
                        /\ UNCHANGED req_response
                   ELSE /\ req_response' = [req_response EXCEPT ![r] =
                                               [success |-> FALSE, error |-> "exception"]]
                        /\ req_pc' = [req_pc EXCEPT ![r] = "done"]
                        /\ UNCHANGED restaurants_df
           ELSE /\ req_pc' = [req_pc EXCEPT ![r] = "meals"]
                /\ UNCHANGED <<restaurants_df, kmeans_model, req_response>>
    /\ UNCHANGED <<yelp, req_city, req_X, req_meals>>

\* restaurant_recommender.py:213-217, one meal of the day
ReqMeal(r) ==
    /\ req_pc[r] = "meals"
    /\ Len(req_meals[r]) < Len(Meals)
    /\ LET meal == Meals[Len(req_meals[r]) + 1]
       IN  req_meals' = [req_meals EXCEPT ![r] =
               Append(@, recommend_by_meal(restaurants_df.value.rows, req_city[r],
                                           meal, MealBudget, CuisineOfDay))]
    /\ UNCHANGED <<yelp, restaurants_df, kmeans_model, req_city, req_pc, req_X,
                   req_response>>

\* app.py:74-85
ReqRespond(r) ==
    /\ req_pc[r] = "meals"
    /\ Len(req_meals[r]) = Len(Meals)
    /\ req_response' = [req_response EXCEPT ![r] =
                           [success |-> TRUE, restaurants |-> req_meals[r]]]
    /\ req_pc' = [req_pc EXCEPT ![r] = "done"]
    /\ UNCHANGED <<yelp, restaurants_df, kmeans_model, req_city, req_X, req_meals>>

requestFrame == <<routeVars, clusterVars, timeVars, appVars, resolverVars,
                  distanceVars, trafficVars>>

RequestsNext ==
    \/ (\E r \in Requests : ReqLoad(r)) /\ UNCHANGED requestFrame
    \/ (\E r \in Requests : ReqFilter(r)) /\ UNCHANGED requestFrame
    \/ (\E r \in Requests : ReqTrainRead(r)) /\ UNCHANGED requestFrame
    \/ (\E r \in Requests : ReqFit(r)) /\ UNCHANGED requestFrame
    \/ (\E r \in Requests : ReqMeal(r)) /\ UNCHANGED requestFrame
    \/ (\E r \in Requests : ReqRespond(r)) /\ UNCHANGED requestFrame

InitRequests ==
    RequestsInit /\ RouteIdle /\ ClusterIdle /\ TimeIdle /\ ResolverIdle
                 /\ DistanceIdle /\ TrafficIdle
                 /\ plan = None /\ last_slot = 0 /\ dataset = <<>> /\ response = None

SpecRequests == InitRequests /\ [][RequestsNext]_vars

\* the frame a request has when no other request runs
OwnRows == IF yelp THEN OnlyRestaurants(Businesses) ELSE SampleRestaurants

\* the response a request gets when it runs alone
AloneResponse(r) ==
    [success |-> TRUE,
     restaurants |-> [k \in DOMAIN Meals |->
                         recommend_by_meal(OwnRows, req_city[r], Meals[k],
                                           MealBudget, CuisineOfDay)]]

\* request r is between its load and its response
Working(r) == req_pc[r] \in {"filter", "train", "fit", "meals"}

\* C25 as to the results: every request is answered as it would be alone.
C25_ResultAsAlone ==
    \A r \in Requests : req_pc[r] = "done" => req_response[r] = AloneResponse(r)

\* C25: two requests served at the same time share no state: the frame and
\* the model a request works with are those it loaded and trained itself,
\* never those of the other request, and every request is answered as it
\* would be alone.
C25_RequestsShareNothing ==
    /\ \A r \in Requests :
          Working(r) =>
              /\ restaurants_df.value.loaded_by = r
              /\ restaurants_df.value.clustered_by \in {0, r}
              /\ kmeans_model \in {0, r}
    /\ C25_ResultAsAlone

\* C25 with the sample data: the requests overwrite each other's frame and
\* model with equal ones, and every request is answered as it would be alone.
C25_SampleDataResultAsAlone ==
    ~yelp => C25_ResultAsAlone

-----------------------------------------------------------------------------
(* What optimize_route returns *)

OptimizeDone == pc = "done" /\ entry = "optimize_route"

\* C26: optimize_route returns a pair of the ordered venues and the total
\* distance for every input, the empty list included.
C26_AlwaysReturnsPair ==
    OptimizeDone =>
        /\ opt_result.kind = "pair"
        /\ Len(opt_result.optimized) = Len(locations)

\* C26 for lists that are not empty
C26_PairWhenNotEmpty ==
    (OptimizeDone /\ Len(locations) > 0) =>
        /\ opt_result.kind = "pair"
        /\ Len(opt_result.optimized) = Len(locations)

-----------------------------------------------------------------------------
(* The day routes as a partition of the extracted locations *)

\* a venue of a route without what calculate_route and optimize_route add to
\* it (app.py:173, route_optimizer.py:93-96)
AsExtracted(l) ==
    [f \in DOMAIN l \ {"latitude", "longitude", "distance_to_next"} |-> l[f]]

\* the venues of a day's route as they were extracted
RouteAsExtracted(day) == [k \in DOMAIN RouteOf(day) |-> AsExtracted(RouteOf(day)[k])]

\* how often the location occurs in a list
Occurrences(list, l) == Cardinality({k \in DOMAIN list : list[k] = l})

\* C27: when two or more locations are extracted, the day routes returned
\* partition them: every extracted location is exactly once in the route of
\* its day tag ("Day 1" without one) and in no other route, no route holds a
\* venue that was not extracted, and every day's route has as many venues as
\* were extracted for that day.
C27_DayRoutesPartitionLocations ==
    Routed =>
        /\ Len(response.locations) >= 2
        /\ Elems(response.route.keys) = {DayOf(l) : l \in Elems(response.locations)}
        /\ NoDuplicates(response.route.keys)
        /\ \A l \in Elems(response.locations) :
              \A day \in Elems(response.route.keys) :
                  Occurrences(RouteAsExtracted(day), l) =
                      IF day = DayOf(l) THEN Occurrences(response.locations, l) ELSE 0
        /\ \A day \in Elems(response.route.keys) :
              /\ Elems(RouteAsExtracted(day)) \subseteq Elems(response.locations)
              /\ Len(RouteOf(day)) = Len(LocatedOf(day))

\* a hotel and a venue of another kind routed together in one day
C27_Witness ==
    /\ Routed
    /\ \E day \in Elems(response.route.keys) :
          /\ Len(RouteOf(day)) = 2
          /\ RouteOf(day)[1].type = "hotel"
          /\ RouteOf(day)[2].type # "hotel"
          /\ RouteOf(day)[1].distance_to_next > 0

-----------------------------------------------------------------------------
(* Order of the clusters and of their members *)

\* the seed of the k-th cluster of the result
SeedOf(k) == cl_result[k][1]

Increasing(seq) == \A j, k \in DOMAIN seq : j < k => seq[j] < seq[k]

\* C28: the clusters are in the input order of their seeds, the members of a
\* cluster are in their input order, and no member of a later cluster is
\* within max_distance_km of the seed of an earlier one.
C28_EarliestSeedTakesVenue ==
    Clustered =>
        /\ Increasing([k \in DOMAIN cl_result |-> SeedOf(k)])
        /\ \A k \in DOMAIN cl_result : Increasing(cl_result[k])
        /\ \A i, j \in DOMAIN cl_result :
              i < j => \A a \in Elems(cl_result[j]) :
                          DVenue(SeedOf(i), a) > max_distance_km

\* the first seed took the third venue and left the second, which lies
\* between them in the input
C28_Witness ==
    /\ Clustered
    /\ max_distance_km > 0
    /\ cl_result = <<<<0, 2>>, <<1>>>>

-----------------------------------------------------------------------------
(* What extract_locations and calculate_route leave behind *)

\* the step in which the response is built from the plan
RespondStep == pc = "plan" /\ pc' = "done"

-----------------------------------------------------------------------------
(* The plan's route_optimization *)

\* a mapping without keys
EmptyMapping(d) == d.keys = <<>> /\ DOMAIN d.items = {}

\* a day of the plan has two or more venues
BusyDay(p) == \E d \in Elems(DayKeys) : Len(CollectsTheDay(p, d)) >= 2

=============================================================================
